---- MODULE Spec2Model ----
(***************************************************************************)
(* A model of the pyrepox client (src/repox/repox.py): the update-merge    *)
(* operations, the harvest scheduling operations and the metadata-format   *)
(* lookup, against a remote Repox service that answers each HTTP request.  *)
(*                                                                         *)
(* Strings the code only compares whole (field values, day names) are TLA+ *)
(* strings.  Strings the code transforms or builds character by character  *)
(* (metadata format names, formatted times and dates) are sequences of     *)
(* one-character strings, so that lower() and format() are computed.       *)
(***************************************************************************)
EXTENDS Integers, Sequences, FiniteSets, TLC

VARIABLES
    now_day,      \* the local date of arrow.utcnow().to("local"), in days since 1970-01-01
    now_min,      \* the local time of day of the same instant, in minutes since midnight
    aggregators,  \* the remote service's aggregators: id -> stored representation
    providers,    \* the remote service's providers: id -> stored representation
    datasets,     \* the remote service's datasets: id -> stored representation
    schedules,    \* the remote service's scheduled harvests: dataset id -> list of tasks
    self,         \* the attributes of the Repox instance
    pc,           \* the position of the client call: "idle", "fetched", "done", "raised"
    op,           \* the operation the caller invokes
    args,         \* the arguments the caller passes
    old_data,     \* the body of the GET response the update operation holds
    requests,     \* the HTTP requests the call has issued, in order
    result,       \* the value the call returned
    locals,       \* the local variables a call holds between two of its requests
    returned      \* the calls that returned before the current one, in order

vars == <<now_day, now_min, aggregators, providers, datasets, schedules, self,
          pc, op, args, old_data, requests, result, locals, returned>>

remote == <<aggregators, providers, datasets, schedules>>
clock == <<now_day, now_min>>

\* what no step of a call of one of the modelled operations assigns
kept == <<self, returned>>

None == "None"

(***************************************************************************)
(* The connection                                                          *)
(***************************************************************************)
\* Repox.__init__; the endpoint f"{repox_url}/repox/rest" is kept as its segments
Repox_init(repox_url, username, password) ==
    [swagger_endpoint |-> <<repox_url, "repox", "rest">>,
     username |-> username,
     password |-> password,
     headers |-> [content_type |-> "application/json"]]

\* auth=(self.username, self.password)
auth == <<self.username, self.password>>

(***************************************************************************)
(* Characters and str.lower()                                              *)
(***************************************************************************)
LowerOf ==
    ("A" :> "a") @@ ("B" :> "b") @@ ("C" :> "c") @@ ("D" :> "d") @@ ("E" :> "e") @@
    ("F" :> "f") @@ ("G" :> "g") @@ ("H" :> "h") @@ ("I" :> "i") @@ ("J" :> "j") @@
    ("K" :> "k") @@ ("L" :> "l") @@ ("M" :> "m") @@ ("N" :> "n") @@ ("O" :> "o") @@
    ("P" :> "p") @@ ("Q" :> "q") @@ ("R" :> "r") @@ ("S" :> "s") @@ ("T" :> "t") @@
    ("U" :> "u") @@ ("V" :> "v") @@ ("W" :> "w") @@ ("X" :> "x") @@ ("Y" :> "y") @@
    ("Z" :> "z")

Letters == DOMAIN LowerOf

lower_char(c) == IF c \in Letters THEN LowerOf[c] ELSE c

upper_char(c) ==
    IF \E u \in Letters : LowerOf[u] = c
    THEN CHOOSE u \in Letters : LowerOf[u] = c
    ELSE c

\* str.lower(): every cased character replaced by its lowercase form
lower(s) == [i \in DOMAIN s |-> lower_char(s[i])]

upper(s) == [i \in DOMAIN s |-> upper_char(s[i])]

RECURSIVE CaseVariants(_)
\* every string that differs from s in letter case only
CaseVariants(s) ==
    IF s = <<>> THEN {<<>>}
    ELSE {<<c>> \o t : c \in {lower_char(s[1]), upper_char(s[1])},
                       t \in CaseVariants(Tail(s))}

(***************************************************************************)
(* Metadata-format lookup                                                  *)
(***************************************************************************)
S_edm == <<"e", "d", "m">>
S_ese == <<"e", "s", "e">>
S_ISO2709 == <<"I", "S", "O", "2", "7", "0", "9">>
S_lido == <<"l", "i", "d", "o">>
S_MarcXchange == <<"M", "a", "r", "c", "X", "c", "h", "a", "n", "g", "e">>
S_mods == <<"m", "o", "d", "s">>
S_NLM_AI == <<"N", "L", "M", "-", "A", "I">>
S_NLM_Book == <<"N", "L", "M", "-", "B", "o", "o", "k">>
S_oai_dc == <<"o", "a", "i", "_", "d", "c">>
S_oai_qdc == <<"o", "a", "i", "_", "q", "d", "c">>
S_tel == <<"t", "e", "l">>
S_unknown_format == <<"u", "n", "k", "n", "o", "w", "n", "-", "f", "o", "r", "m", "a", "t">>
S_marc == <<"m", "a", "r", "c">>

\* the formats dict of __metadata_helper, keys and entries as written
formats ==
    (S_edm :> [schema |-> "http://www.europeana.eu/schemas/edm/EDM.xsd",
        namespace |-> "http://www.europeana.eu/schemas/edm/"]) @@
    (S_ese :> [schema |-> "http://www.europeana.eu/schemas/ese/ESE-V3.4.xsd",
        namespace |-> "http://www.europeana.eu/schemas/ese/"]) @@
    (S_ISO2709 :> [schmea |-> "info:lc/xmlns/marcxchange-v1.xsd",
        namespace |-> "info:lc/xmlns/marcxchange-v1"]) @@
    (S_lido :> [schema |-> "http://www.lido-schema.org/schema/v1.0/lido-v1.0.xsd",
        namespace |-> "http://www.lido-schema.org"]) @@
    (S_MarcXchange :> [schema |-> "info:lc/xmlns/marcxchange-v1.xsd",
        namespace |-> "info:lc/xmlns/marcxchange-v1"]) @@
    (S_mods :> [schema |-> "http://www.loc.gov/standards/mods/v3/mods-3-5.xsd",
        namespace |-> "http://www.loc.gov/mods/v3"]) @@
    (S_NLM_AI :> [schema |-> "ncbi-mathml2/mathml2.xsd",
        namespace |-> "http://www.w3.org/1998/Math/MathML"]) @@
    (S_NLM_Book :> [schema |-> "ncbi-mathml2/mathml2.xsd",
        namespace |-> "http://www.w3.org/1998/Math/MathML"]) @@
    (S_oai_dc :> [schema |-> "http://www.openarchives.org/OAI/2.0/oai_dc.xsd",
        namespace |-> "http://www.openarchives.org/OAI/2.0/"]) @@
    (S_oai_qdc :> [schema |-> "http://worldcat.org/xmlschemas/qdc/1.0/qdc-1.0.xsd",
        namespace |-> "http://worldcat.org/xmlschemas/qdc-1.0"]) @@
    (S_tel :> [schema |-> "http://www.europeana.eu/schemas/ese/ESE-V3.4.xsd",
        namespace |-> "http://krait.kb.nl/coop/tel/handbook/telterms.html"])

\* the format names the table lists
ListedFormats == {S_edm, S_ese, S_ISO2709, S_lido, S_MarcXchange, S_mods, S_NLM_AI, S_NLM_Book, S_oai_dc, S_oai_qdc, S_tel}

mutant_current_format_as_given(metadata_format) == metadata_format

current_format(metadata_format) == lower(metadata_format)

\* __metadata_helper: try formats[current_format], except KeyError
metadata_helper(metadata_format) ==
    IF current_format(metadata_format) \in DOMAIN formats
    THEN [result |-> formats[current_format(metadata_format)]]
    ELSE [result |-> [schema |-> "", namespace |-> ""]]

(***************************************************************************)
(* Local time: arrow's shift() and format()                                *)
(***************************************************************************)
Digits == <<"0", "1", "2", "3", "4", "5", "6", "7", "8", "9">>

two_digits(n) == <<Digits[(n \div 10) + 1], Digits[(n % 10) + 1]>>

four_digits(n) ==
    <<Digits[(n \div 1000) + 1], Digits[((n \div 100) % 10) + 1],
      Digits[((n \div 10) % 10) + 1], Digits[(n % 10) + 1]>>

\* an instant of local time: [day |-> days since 1970-01-01, min |-> minute of the day]
now == [day |-> now_day, min |-> now_min]

\* Arrow.shift(minutes=n)
shift_minutes(t, n) ==
    [day |-> t.day + ((t.min + n) \div 1440),
     min |-> (t.min + n) % 1440]

\* Arrow.shift(days=n)
shift_days(t, n) == [day |-> t.day + n, min |-> t.min]

\* the proleptic Gregorian date [y, m, d] of a day count (days since 1970-01-01)
civil_from_days(z0) ==
    LET z   == z0 + 719468
        era == z \div 146097
        doe == z - era * 146097
        yoe == (doe - (doe \div 1460) + (doe \div 36524) - (doe \div 146096)) \div 365
        doy == doe - (365 * yoe + (yoe \div 4) - (yoe \div 100))
        mp  == (5 * doy + 2) \div 153
        d   == doy - ((153 * mp + 2) \div 5) + 1
        m   == IF mp < 10 THEN mp + 3 ELSE mp - 9
        y   == yoe + era * 400 + (IF m <= 2 THEN 1 ELSE 0)
    IN  [y |-> y, m |-> m, d |-> d]

\* Arrow.format("HH:mm")
format_HHmm(t) == two_digits(t.min \div 60) \o <<":">> \o two_digits(t.min % 60)

\* Arrow.format("DD/MM/YYYY")
format_DDMMYYYY(t) ==
    LET c == civil_from_days(t.day)
    IN  two_digits(c.d) \o <<"/">> \o two_digits(c.m) \o <<"/">> \o four_digits(c.y)

\* the list schedule_weekly_harvest builds its deque from
days_of_week ==
    <<"Sunday", "Monday", "Tuesday", "Wednesday", "Thursday", "Friday", "Saturday">>

\* Arrow.format("dddd"): the English name of the weekday (1970-01-01 was a Thursday)
format_dddd(t) == days_of_week[((t.day + 4) % 7) + 1]

Range(s) == {s[i] : i \in DOMAIN s}

\* deque.index(x): the zero-based position of the first x
index(d, x) == (CHOOSE i \in DOMAIN d : d[i] = x /\ \A j \in 1..(i - 1) : d[j] # x) - 1

\* deque.rotate(n): n steps to the right, to the left when n is negative
rotate(d, n) == [i \in DOMAIN d |-> d[((i - 1 - n) % Len(d)) + 1]]

(***************************************************************************)
(* The remote service's answers                                            *)
(***************************************************************************)
\* the status codes the service answers a POST that schedules a harvest with
ScheduleStatus == {201, 400, 404, 500}

(***************************************************************************)
(* schedule_harvest                                                        *)
(***************************************************************************)
T_NOT_SET == <<"N", "O", "T", " ", "S", "E", "T">>
T_Not_Set == <<"N", "o", "t", " ", "S", "e", "t">>

\* str(incremental).lower()
bool_lower(b) == IF b THEN "true" ELSE "false"

mutant_schedule_harvest_time_is_now(a) ==
    IF a.time = T_NOT_SET THEN format_HHmm(now) ELSE a.time

schedule_harvest_time(a) ==
    IF a.time = T_NOT_SET THEN format_HHmm(shift_minutes(now, 15)) ELSE a.time

schedule_harvest_date(a) ==
    IF a.date = T_NOT_SET THEN format_DDMMYYYY(now) ELSE a.date

mutant_xmonths_always_defaulted(a) == IF a.xmonths = 0 THEN 1 ELSE a.xmonths

schedule_harvest_xmonths(a) ==
    IF a.frequency = "XMONTHLY" /\ a.xmonths = 0 THEN 1 ELSE a.xmonths

\* the metadata dict schedule_harvest posts
schedule_harvest_metadata(a) ==
    [taskType |-> "SCHEDULED", id |-> "", frequency |-> a.frequency,
     xmonths |-> schedule_harvest_xmonths(a),
     time |-> schedule_harvest_time(a), date |-> schedule_harvest_date(a)]

\* requests.post(.../datasets/{dataset_id}/harvest/schedule?incremental=...)
schedule_request(dataset_id, incremental, metadata) ==
    [method |-> "POST",
     url |-> self.swagger_endpoint \o <<"datasets", dataset_id, "harvest", "schedule">>,
     path |-> <<"datasets", dataset_id, "harvest", "schedule">>,
     query |-> [incremental |-> incremental],
     auth |-> auth, headers |-> self.headers, data |-> metadata]

\* schedule_harvest: one POST, whose status code is returned
ScheduleHarvest ==
    /\ pc = "idle"
    /\ op = "schedule_harvest"
    /\ \E status \in ScheduleStatus :
        /\ requests' = <<schedule_request(args.dataset_id, bool_lower(args.incremental),
                                       schedule_harvest_metadata(args))>>
        /\ result' = status
    /\ pc' = "done"
    /\ UNCHANGED <<kept, clock, remote, op, args, old_data, locals>>

(***************************************************************************)
(* schedule_weekly_harvest                                                 *)
(***************************************************************************)
mutant_shift_time_without_next_week(day_of_week) ==
    index(rotate(days_of_week, -index(days_of_week, format_dddd(now))), day_of_week)

\* the number of days schedule_weekly_harvest adds to now
shift_time(day_of_week) ==
    LET today   == index(days_of_week, format_dddd(now))
        rotated == rotate(days_of_week, -today)
        st      == index(rotated, day_of_week)
    IN  IF st = 0 THEN 7 ELSE st

schedule_weekly_harvest_time(a) ==
    IF a.time = T_Not_Set THEN format_HHmm(shift_minutes(now, 15)) ELSE a.time

\* the metadata dict schedule_weekly_harvest posts
schedule_weekly_harvest_metadata(a) ==
    [taskType |-> "SCHEDULED", id |-> "", frequency |-> "WEEKLY", xmonths |-> 0,
     time |-> schedule_weekly_harvest_time(a),
     date |-> format_DDMMYYYY(shift_days(now, shift_time(a.day_of_week)))]

mutant_day_is_known_weekdays_only(day_of_week) ==
    day_of_week \in Range(SubSeq(days_of_week, 2, 6))

\* the check the handler makes before anything else
day_is_known(day_of_week) == day_of_week \in Range(days_of_week)

\* schedule_weekly_harvest: 500 without a request for an unknown day, else one POST
ScheduleWeeklyHarvest ==
    /\ pc = "idle"
    /\ op = "schedule_weekly_harvest"
    /\ IF ~day_is_known(args.day_of_week)
       THEN /\ result' = 500
            /\ requests' = <<>>
       ELSE \E status \in ScheduleStatus :
            /\ requests' = <<schedule_request(args.dataset_id, "false",
                                           schedule_weekly_harvest_metadata(args))>>
            /\ result' = status
    /\ pc' = "done"
    /\ UNCHANGED <<kept, clock, remote, op, args, old_data, locals>>

(***************************************************************************)
(* Initial states                                                          *)
(***************************************************************************)
\* the days the clock is drawn from: 2018-12-27 .. 2019-01-02 (every weekday, a
\* month end and a year end) and 2020-02-28 .. 2020-02-29 (a leap day)
Days == (17892..17898) \cup (18320..18321)

\* the times of day the clock is drawn from, 23:45 and 23:59 among them
Minutes == {0, 540, 1424, 1425, 1439}

MaxXmonths == 2

T_0100 == <<"0", "1", ":", "0", "0">>
T_0400 == <<"0", "4", ":", "0", "0">>
D_01122019 == <<"0", "1", "/", "1", "2", "/", "2", "0", "1", "9">>

InitClock ==
    /\ now_day \in Days
    /\ now_min \in Minutes

NoRemote ==
    /\ aggregators = <<>>
    /\ providers = <<>>
    /\ datasets = <<>>
    /\ schedules = <<>>

\* Repox("http://localhost:8080", "username", "password")
InitSelf == self = Repox_init("http://localhost:8080", "username", "password")

InitCall ==
    /\ pc = "idle"
    /\ old_data = None
    /\ requests = <<>>
    /\ result = None
    /\ locals = None
    /\ returned = <<>>
    /\ InitSelf

ScheduleHarvestArgs ==
    [dataset_id : {"bcpl"},
     frequency : {"ONCE", "DAILY", "WEEKLY", "XMONTHLY", "YEARLY", "xmonthly", ""},
     time : {T_NOT_SET, T_0100},
     date : {T_NOT_SET, D_01122019},
     xmonths : 0..MaxXmonths,
     incremental : BOOLEAN]

ScheduleWeeklyHarvestArgs ==
    [dataset_id : {"nr"},
     day_of_week : Range(days_of_week) \cup {"Tomorrow", "monday", "Mon", ""},
     time : {T_Not_Set, T_NOT_SET, T_0400}]

InitSchedule ==
    /\ InitClock
    /\ NoRemote
    /\ InitCall
    /\ \/ op = "schedule_harvest" /\ args \in ScheduleHarvestArgs
       \/ op = "schedule_weekly_harvest" /\ args \in ScheduleWeeklyHarvestArgs

NextSchedule ==
    \/ ScheduleHarvest
    \/ ScheduleWeeklyHarvest

\* one call of a harvest-scheduling operation, at any clock time
SpecSchedule == InitSchedule /\ [][NextSchedule]_vars

(***************************************************************************)
(* Claims about harvest scheduling                                         *)
(***************************************************************************)
CanonicalDays ==
    {"Sunday", "Monday", "Tuesday", "Wednesday", "Thursday", "Friday", "Saturday"}

WeeklyDone == pc = "done" /\ op = "schedule_weekly_harvest"

HarvestDone == pc = "done" /\ op = "schedule_harvest"

\* C5: schedule_weekly_harvest with a day_of_week that is not exactly one of the
\* seven names Sunday..Saturday returns 500 and issues no HTTP request; with one
\* of the seven names it issues exactly one request, a POST.
C5_WeeklyRejectsUnknownDayLocally ==
    WeeklyDone =>
        IF args.day_of_week \in CanonicalDays
        THEN Len(requests) = 1 /\ requests[1].method = "POST"
        ELSE result = 500 /\ requests = <<>>

C5_Witness ==
    /\ WeeklyDone
    /\ args.day_of_week = "monday"
    /\ result = 500
    /\ requests = <<>>

\* C6: for every pair (today's weekday, requested weekday) the submitted date is
\* today plus n days with n in 1..7, that day falls on the requested weekday, n is
\* 7 when the requested weekday is today's, and the date is never today's date.
C6_WeeklyDateIsNextOccurrence ==
    (WeeklyDone /\ args.day_of_week \in CanonicalDays) =>
        /\ \E n \in 1..7 :
            /\ requests[1].data.date = format_DDMMYYYY(shift_days(now, n))
            /\ format_dddd(shift_days(now, n)) = args.day_of_week
            /\ (args.day_of_week = format_dddd(now) => n = 7)
        /\ requests[1].data.date # format_DDMMYYYY(now)

C6_Witness ==
    /\ WeeklyDone
    /\ args.day_of_week = format_dddd(now)
    /\ requests[1].data.date = format_DDMMYYYY(shift_days(now, 7))

\* C7: schedule_harvest called with a frequency outside ONCE, DAILY, WEEKLY,
\* XMONTHLY returns 500.
C7_UnknownFrequencyReturns500 ==
    (HarvestDone /\ args.frequency \notin {"ONCE", "DAILY", "WEEKLY", "XMONTHLY"}) =>
        result = 500

\* C8: schedule_harvest with frequency XMONTHLY and xmonths 0 submits xmonths 1;
\* in every other case it submits the caller's xmonths unchanged.
C8_XmonthsDefaultsOnlyForXmonthly ==
    HarvestDone =>
        /\ (args.frequency = "XMONTHLY" /\ args.xmonths = 0) =>
                requests[1].data.xmonths = 1
        /\ (args.frequency # "XMONTHLY" \/ args.xmonths # 0) =>
                requests[1].data.xmonths = args.xmonths

C8_Witness ==
    /\ HarvestDone
    /\ args.frequency = "XMONTHLY"
    /\ args.xmonths = 0
    /\ requests[1].data.xmonths = 1

\* the number a decimal digit character stands for
DigitValue(c) == CHOOSE n \in 0..9 : Digits[n + 1] = c

\* the number a string of decimal digits denotes
DigitsValue(s) ==
    LET power[k \in 0..Len(s)] == IF k = 0 THEN 1 ELSE 10 * power[k - 1]
        partial[k \in 0..Len(s)] ==
            IF k = 0 THEN 0
            ELSE partial[k - 1] + DigitValue(s[k]) * power[Len(s) - k]
    IN  partial[Len(s)]

\* the minute of the day an HH:mm string denotes
MinuteOfHHmm(s) ==
    (DigitValue(s[1]) * 10 + DigitValue(s[2])) * 60
        + DigitValue(s[4]) * 10 + DigitValue(s[5])

\* the [y, m, d] a DD/MM/YYYY string denotes
DateOfDDMMYYYY(s) ==
    [d |-> DigitValue(s[1]) * 10 + DigitValue(s[2]),
     m |-> DigitValue(s[4]) * 10 + DigitValue(s[5]),
     y |-> DigitValue(s[7]) * 1000 + DigitValue(s[8]) * 100
            + DigitValue(s[9]) * 10 + DigitValue(s[10])]

DayOfDDMMYYYY(s) ==
    CHOOSE d \in UNION {{x, x + 1} : x \in Days} :
        civil_from_days(d) = DateOfDDMMYYYY(s)

\* C27: schedule_harvest with time and date both unset never schedules in the
\* past: for every current time, 23:45 to 23:59 included, the submitted date and
\* time denote an instant not earlier than now.
C27_DefaultedHarvestNotInThePast ==
    (HarvestDone /\ args.time = T_NOT_SET /\ args.date = T_NOT_SET) =>
        LET day == DayOfDDMMYYYY(requests[1].data.date)
            minute == MinuteOfHHmm(requests[1].data.time)
        IN  \/ day > now_day
            \/ day = now_day /\ minute >= now_min

(***************************************************************************)
(* The metadata-format lookup on its own                                   *)
(***************************************************************************)
\* the listed names short enough to draw every letter-case variant of
ShortListedFormats == ListedFormats \ {S_MarcXchange}

\* the strings the lookup is applied to: every case variant of ten listed names,
\* MarcXchange as listed, in lower and in upper case, and names the table lacks
MetadataFormatInputs ==
    UNION {CaseVariants(n) : n \in ShortListedFormats}
        \cup {S_MarcXchange, lower(S_MarcXchange), upper(S_MarcXchange)}
        \cup {S_unknown_format, S_marc, <<>>}

mutant_metadata_helper_catches_nothing == {}

\* the exceptions the try statement of __metadata_helper has an except clause for
metadata_helper_caught == {"KeyError"}

\* the exception formats[current_format] raises, None when it raises none
metadata_helper_raised(metadata_format) ==
    IF current_format(metadata_format) \notin DOMAIN formats THEN "KeyError" ELSE None

\* __metadata_helper applied to its argument
MetadataHelper ==
    /\ pc = "idle"
    /\ op = "metadata_helper"
    /\ IF metadata_helper_raised(args.metadata_format)
            \notin metadata_helper_caught \cup {None}
       THEN /\ result' = metadata_helper_raised(args.metadata_format)
            /\ pc' = "raised"
       ELSE /\ result' = metadata_helper(args.metadata_format)
            /\ pc' = "done"
    /\ UNCHANGED <<kept, clock, remote, op, args, old_data, requests, locals>>

InitLookup ==
    /\ now_day = 17892
    /\ now_min = 0
    /\ NoRemote
    /\ InitCall
    /\ op = "metadata_helper"
    /\ args \in [metadata_format : MetadataFormatInputs]

NextLookup == MetadataHelper

\* one lookup of a metadata format name
SpecLookup == InitLookup /\ [][NextLookup]_vars

(***************************************************************************)
(* Claims about the metadata-format lookup                                 *)
(***************************************************************************)
LookupDone == pc = "done" /\ op = "metadata_helper"

\* the lookup result carries a non-empty schema and a non-empty namespace
FoundFormat(r) ==
    /\ "schema" \in DOMAIN r.result
    /\ "namespace" \in DOMAIN r.result
    /\ r.result.schema # ""
    /\ r.result.namespace # ""

\* C9: the lookup finds every one of the eleven listed formats: for each listed
\* name, as listed and in any other letter case, it returns that format's
\* non-empty schema and non-empty namespace.
C9_EveryListedFormatIsFound ==
    LookupDone =>
        \A n \in ListedFormats :
            lower(args.metadata_format) = lower(n) =>
                FoundFormat(result) /\ result.result = formats[n]

\* C10: the lookup is case-insensitive: the lookup of a string and the lookup of
\* any case variant of it return the same schema and namespace.
C10_LookupIgnoresLetterCase ==
    LookupDone =>
        \A v \in CaseVariants(args.metadata_format) :
            metadata_helper(v) = result

C10_Witness ==
    /\ LookupDone
    /\ args.metadata_format = upper(S_mods)
    /\ result = metadata_helper(S_mods)
    /\ FoundFormat(result)

\* the name matches no listed format name, letter case ignored
NotInTable(name) == \A n \in ListedFormats : lower(name) # lower(n)

\* C11: the lookup of a name that is not in the table returns a result whose
\* schema and namespace are both the empty string, and the lookup raises for no
\* input string.
C11_LookupMissIsEmptyAndNeverRaises ==
    (op = "metadata_helper" /\ pc # "idle") =>
        /\ pc = "done"
        /\ NotInTable(args.metadata_format) =>
                result.result = [schema |-> "", namespace |-> ""]

C11_Witness ==
    /\ LookupDone
    /\ args.metadata_format = S_unknown_format
    /\ result.result.schema = ""
    /\ result.result.namespace = ""

(***************************************************************************)
(* The update operations: a GET of the current representation, then a PUT  *)
(* of the merged one                                                       *)
(***************************************************************************)
\* the status codes the service answers a PUT with
UpdateStatus == {200, 400, 404}

\* dict[key] raises KeyError
KeyError(d, key) == key \notin DOMAIN d

\* the body the service answers a GET of an id it does not hold with
error_body == [result |-> "does NOT exist"]

\* the JSON body of the response to GET /<collection>/<id>
get_json(store, id) == IF id \in DOMAIN store THEN store[id] ELSE error_body

\* the status codes the service may answer PUT /<collection>/<id> with
put_status(store, id) == IF id \in DOMAIN store THEN UpdateStatus ELSE {404}

mutant_put_effect_dropped(store, id, data, status) == store

\* the collection after the PUT was answered with status
put_effect(store, id, data, status) ==
    IF status = 200 THEN [store EXCEPT ![id] = data] ELSE store

get_request(collection, id) ==
    [method |-> "GET", url |-> self.swagger_endpoint \o <<collection, id>>,
     path |-> <<collection, id>>, auth |-> auth, data |-> None]

mutant_put_request_to_collection(collection, id, data) ==
    [method |-> "PUT", url |-> self.swagger_endpoint \o <<collection>>,
     path |-> <<collection>>, auth |-> auth, headers |-> self.headers,
     data |-> data]

put_request(collection, id, data) ==
    [method |-> "PUT", url |-> self.swagger_endpoint \o <<collection, id>>,
     path |-> <<collection, id>>, auth |-> auth, headers |-> self.headers,
     data |-> data]

mutant_merged_keeps_sentinel(value, old, key) == value

\* if value == "": value = old_data[key]
merged(value, old, key) == IF value = "" THEN old[key] ELSE value

(***************************************************************************)
(* update_aggregator                                                       *)
(***************************************************************************)
\* the dict lookups of the three if-statements, any of which may raise
update_aggregator_raises(a, old) ==
    \/ a.aggregator_name = "" /\ KeyError(old, "name")
    \/ a.name_code = "" /\ KeyError(old, "nameCode")
    \/ a.homepage = "" /\ KeyError(old, "homepage")

\* aggregator_data; "homepage == old_data[...]" compares and assigns nothing
update_aggregator_data(a, old) ==
    [id |-> a.aggregator_id,
     name |-> merged(a.aggregator_name, old, "name"),
     nameCode |-> merged(a.name_code, old, "nameCode"),
     homepage |-> a.homepage]

\* old_data = self.get_aggregator(aggregator_id)
UpdateAggregatorGet ==
    /\ pc = "idle"
    /\ op = "update_aggregator"
    /\ old_data' = get_json(aggregators, args.aggregator_id)
    /\ requests' = <<get_request("aggregators", args.aggregator_id)>>
    /\ pc' = "fetched"
    /\ UNCHANGED <<kept, clock, remote, op, args, result, locals>>

\* the merge and the PUT of aggregator_data
UpdateAggregatorPut ==
    /\ pc = "fetched"
    /\ op = "update_aggregator"
    /\ IF update_aggregator_raises(args, old_data)
       THEN /\ pc' = "raised"
            /\ result' = "KeyError"
            /\ UNCHANGED <<requests, aggregators>>
       ELSE \E status \in put_status(aggregators, args.aggregator_id) :
            LET data == update_aggregator_data(args, old_data) IN
            /\ requests' = Append(requests,
                                  put_request("aggregators", args.aggregator_id, data))
            /\ aggregators' = put_effect(aggregators, args.aggregator_id, data, status)
            /\ result' = status
            /\ pc' = "done"
    /\ UNCHANGED <<kept, clock, providers, datasets, schedules, op, args, old_data, locals>>

(***************************************************************************)
(* update_provider                                                         *)
(***************************************************************************)
provider_types ==
    {"ARCHIVE", "MUSEUM", "LIBRARY", "AUDIO_VISUAL_ARCHIVE", "RESEARCH_EDUCATIONAL",
     "CROSS_SECTOR", "PUBLISHER", "PRIVATE", "AGGREGATOR", "UNKNOWN"}

\* try: country = old_data["country"], except KeyError: country = ""
update_provider_country(country, old) ==
    IF country = ""
    THEN IF KeyError(old, "country") THEN "" ELSE old["country"]
    ELSE country

mutant_provider_type_unchecked(provider_type, old) ==
    merged(provider_type, old, "providerType")

update_provider_type(provider_type, old) ==
    IF provider_type = "" THEN old["providerType"]
    ELSE IF provider_type \notin provider_types THEN old["providerType"]
    ELSE provider_type

\* the dict lookups outside the try, any of which may raise
update_provider_raises(a, old) ==
    \/ a.name = "" /\ KeyError(old, "name")
    \/ a.country_code = "" /\ KeyError(old, "countryCode")
    \/ a.description = "" /\ KeyError(old, "description")
    \/ a.name_code = "" /\ KeyError(old, "nameCode")
    \/ a.homepage = "" /\ KeyError(old, "homepage")
    \/ (a.provider_type = "" \/ a.provider_type \notin provider_types)
            /\ KeyError(old, "providerType")
    \/ a.email = "" /\ KeyError(old, "email")

mutant_update_provider_metadata_names_swapped(a, old) ==
    [id |-> a.provider_id,
     name |-> merged(a.name, old, "nameCode"),
     country |-> update_provider_country(a.country, old),
     countryCode |-> merged(a.country_code, old, "countryCode"),
     description |-> merged(a.description, old, "description"),
     nameCode |-> merged(a.name_code, old, "name"),
     homepage |-> merged(a.homepage, old, "homepage"),
     providerType |-> update_provider_type(a.provider_type, old),
     email |-> merged(a.email, old, "email")]

\* the metadata dict update_provider puts
update_provider_metadata(a, old) ==
    [id |-> a.provider_id,
     name |-> merged(a.name, old, "name"),
     country |-> update_provider_country(a.country, old),
     countryCode |-> merged(a.country_code, old, "countryCode"),
     description |-> merged(a.description, old, "description"),
     nameCode |-> merged(a.name_code, old, "nameCode"),
     homepage |-> merged(a.homepage, old, "homepage"),
     providerType |-> update_provider_type(a.provider_type, old),
     email |-> merged(a.email, old, "email")]

\* old_data = requests.get(.../providers/{provider_id}).json()
UpdateProviderGet ==
    /\ pc = "idle"
    /\ op = "update_provider"
    /\ old_data' = get_json(providers, args.provider_id)
    /\ requests' = Append(requests, get_request("providers", args.provider_id))
    /\ pc' = "fetched"
    /\ UNCHANGED <<kept, clock, remote, op, args, result, locals>>

\* the merge and the PUT of metadata
UpdateProviderPut ==
    /\ pc = "fetched"
    /\ op = "update_provider"
    /\ IF update_provider_raises(args, old_data)
       THEN /\ pc' = "raised"
            /\ result' = "KeyError"
            /\ UNCHANGED <<requests, providers>>
       ELSE \E status \in put_status(providers, args.provider_id) :
            LET data == update_provider_metadata(args, old_data) IN
            /\ requests' = Append(requests,
                                  put_request("providers", args.provider_id, data))
            /\ providers' = put_effect(providers, args.provider_id, data, status)
            /\ result' = status
            /\ pc' = "done"
    /\ UNCHANGED <<kept, clock, aggregators, datasets, schedules, op, args,
                 old_data, locals>>

(***************************************************************************)
(* update_oai_dataset                                                      *)
(***************************************************************************)
\* format_data, when metadata_format != ""
format_data(a) == metadata_helper(a.metadata_format)

\* format_data["result"]["schema"] raises for an entry without that key
update_oai_dataset_raises(a, old) ==
    \/ KeyError(old, "dataSource")
    \/ a.metadata_format # <<>> /\ KeyError(format_data(a).result, "schema")

mutant_data_source_data_with_id(a) ==
    [exportDir |-> a.export_dir, description |-> a.description,
     oaiSourceURL |-> a.oai_url, isSample |-> a.is_sample, oaiSet |-> a.set_name,
     id |-> a.set_name]

\* data_source_data, with the three format keys when the format is known
data_source_data(a) ==
    LET base == [exportDir |-> a.export_dir,
                 description |-> a.description,
                 oaiSourceURL |-> a.oai_url,
                 isSample |-> a.is_sample,
                 oaiSet |-> a.set_name]
    IN  IF a.metadata_format # <<>> /\ format_data(a).result.schema # ""
        THEN base @@ [schema |-> format_data(a).result.schema,
                      namespace |-> format_data(a).result.namespace,
                      metadataFormat |-> a.metadata_format]
        ELSE base

\* v != "" for the value v of key k: a bool never equals a string, and a format
\* name is a sequence of characters
not_empty_string(k, v) ==
    IF k = "isSample" THEN TRUE
    ELSE IF k = "metadataFormat" THEN v # <<>>
    ELSE v # ""

\* for k, v in data_source_data.items(): if v != "": old_data["dataSource"][k] = v
update_data_source(dsd, data_source) ==
    LET set == {k \in DOMAIN dsd : not_empty_string(k, dsd[k])}
    IN  [k \in DOMAIN data_source \cup set |->
            IF k \in set THEN dsd[k] ELSE data_source[k]]

\* old_data after the assignments: the body of the PUT
update_oai_dataset_data(a, old) ==
    LET with_source == [old EXCEPT !["dataSource"] =
                            update_data_source(data_source_data(a), old["dataSource"])]
        with_name == IF a.name # ""
                     THEN [k \in DOMAIN with_source \cup {"name"} |->
                            IF k = "name" THEN a.name ELSE with_source[k]]
                     ELSE with_source
    IN  IF a.name_code # ""
        THEN [k \in DOMAIN with_name \cup {"nameCode"} |->
                IF k = "nameCode" THEN a.name_code ELSE with_name[k]]
        ELSE with_name

\* old_data = self.get_dataset_details(dataset_id)
UpdateOaiDatasetGet ==
    /\ pc = "idle"
    /\ op = "update_oai_dataset"
    /\ old_data' = get_json(datasets, args.dataset_id)
    /\ requests' = <<get_request("datasets", args.dataset_id)>>
    /\ pc' = "fetched"
    /\ UNCHANGED <<kept, clock, remote, op, args, result, locals>>

\* the merge into old_data and the PUT of it
UpdateOaiDatasetPut ==
    /\ pc = "fetched"
    /\ op = "update_oai_dataset"
    /\ IF update_oai_dataset_raises(args, old_data)
       THEN /\ pc' = "raised"
            /\ result' = "KeyError"
            /\ UNCHANGED <<requests, datasets>>
       ELSE \E status \in put_status(datasets, args.dataset_id) :
            LET data == update_oai_dataset_data(args, old_data) IN
            /\ requests' = Append(requests,
                                  put_request("datasets", args.dataset_id, data))
            /\ datasets' = put_effect(datasets, args.dataset_id, data, status)
            /\ result' = status
            /\ pc' = "done"
    /\ UNCHANGED <<kept, clock, aggregators, providers, schedules, op, args,
                 old_data, locals>>

(***************************************************************************)
(* Initial states of the update operations                                 *)
(***************************************************************************)
\* d without the keys in missing
without(d, missing) == [k \in DOMAIN d \ missing |-> d[k]]

\* the aggregators the service may hold under id "dltn"
StoredAggregators ==
    {without([id |-> "dltn", name |-> "DLTN Test", nameCode |-> "dltn", homepage |-> h],
             missing) :
        h \in {"", "http://localhost:8080/repox"},
        missing \in {{}, {"name"}, {"nameCode"}, {"homepage"}}}

UpdateAggregatorArgs ==
    [aggregator_id : {"dltn", "nope"},
     aggregator_name : {"", "New DLTN"},
     name_code : {"", "new_dltn"},
     homepage : {"", "http://www.tenn-share.org"}]

\* the providers the service may hold under id "UTKr0"
StoredProviders ==
    {without([id |-> "UTKr0", name |-> "UTK", country |-> "United States",
              countryCode |-> "al", description |-> d, nameCode |-> "utk",
              homepage |-> "http://dloai.lib.utk.edu", providerType |-> "LIBRARY",
              email |-> "old@utk.edu"],
             missing) :
        d \in {"", "University of Tennessee Knoxville"},
        missing \in {{}, {"country"}, {"email"}, {"providerType"}}}

UpdateProviderArgs ==
    [provider_id : {"UTKr0", "nope"},
     name : {"", "UT Knoxville"},
     country : {"", "Germany"},
     country_code : {"", "de"},
     description : {"", "new description"},
     name_code : {"", "utk2"},
     homepage : {"", "http://new.lib.utk.edu"},
     provider_type : {"", "MUSEUM", "museum", "NATIONAL"},
     email : {"", "mbagget1@utk.edu"}]

\* the OAI datasets the service may hold under id "nr"
StoredDatasets ==
    {[containerType |-> "DEFAULT",
      dataSource |->
        [dataSetType |-> "OAI", id |-> "nr",
         schema |-> formats[S_oai_dc].schema,
         namespace |-> formats[S_oai_dc].namespace,
         description |-> "Nashville Public Library's Digital Collections",
         metadataFormat |-> S_oai_dc, isSample |-> s,
         exportDir |-> "/vhosts/repoxdata/export/nr",
         oaiSourceURL |-> "http://nashville.contentdm.oclc.org/oai/oai.php",
         oaiSet |-> "nr", recordIdPolicy |-> "IdProvided"],
      nameCode |-> "nashvillepublic_nr",
      name |-> "Nashville Public Library nr"] : s \in BOOLEAN}

UpdateOaiDatasetArgs ==
    [dataset_id : {"nr", "nope"},
     export_dir : {"", "/vagrant/export"},
     metadata_format : {<<>>, S_mods, upper(S_mods), S_ISO2709, S_unknown_format},
     description : {"", "new description"},
     is_sample : BOOLEAN,
     oai_url : {"", "https://dpla.lib.utk.edu/repox/OAIHandler"},
     set_name : {"", "p15769coll18"},
     name : {"", "nashville_test"},
     name_code : {"", "nashville_test_code"}]

InitUpdate ==
    /\ now_day = 17892
    /\ now_min = 0
    /\ InitCall
    /\ schedules = <<>>
    /\ \/ /\ op = "update_aggregator"
          /\ args \in UpdateAggregatorArgs
          /\ \E a \in StoredAggregators : aggregators = ("dltn" :> a)
          /\ providers = <<>>
          /\ datasets = <<>>
       \/ /\ op = "update_provider"
          /\ args \in UpdateProviderArgs
          /\ aggregators = <<>>
          /\ \E p \in StoredProviders : providers = ("UTKr0" :> p)
          /\ datasets = <<>>
       \/ /\ op = "update_oai_dataset"
          /\ args \in UpdateOaiDatasetArgs
          /\ aggregators = <<>>
          /\ providers = <<>>
          /\ \E d \in StoredDatasets : datasets = ("nr" :> d)

NextUpdate ==
    \/ UpdateAggregatorGet
    \/ UpdateAggregatorPut
    \/ UpdateProviderGet
    \/ UpdateProviderPut
    \/ UpdateOaiDatasetGet
    \/ UpdateOaiDatasetPut

\* one call of an update operation, against any of the stored resources
SpecUpdate == InitUpdate /\ [][NextUpdate]_vars

(***************************************************************************)
(* Claims about the update-merge                                           *)
(***************************************************************************)
\* what the merge contract asks of a field: the caller's value when supplied,
\* else the fetched one
Overlaid(value, old, key) == IF value # "" THEN value ELSE old[key]

\* the body of the PUT the call issued
Payload == requests[2].data

UpdateDone(operation) == pc = "done" /\ op = operation

\* C1: update_aggregator: the PUT payload has each supplied field (name, nameCode,
\* homepage) equal to the caller's value and each non-supplied field equal to the
\* value returned by the preceding GET.
C1_AggregatorPayloadIsOverlay ==
    (UpdateDone("update_aggregator") /\ args.aggregator_id \in DOMAIN aggregators) =>
        /\ Payload.name = Overlaid(args.aggregator_name, old_data, "name")
        /\ Payload.nameCode = Overlaid(args.name_code, old_data, "nameCode")
        /\ Payload.homepage = Overlaid(args.homepage, old_data, "homepage")

\* C2: update_provider: for every subset of the eight override parameters passed
\* non-empty (provider_type within the enumeration), the PUT payload has each
\* supplied field equal to the caller's value and each non-supplied field equal to
\* the value the preceding GET returned for it.
C2_ProviderPayloadIsOverlay ==
    (UpdateDone("update_provider") /\ args.provider_type \in provider_types \cup {""}) =>
        /\ Payload.name = Overlaid(args.name, old_data, "name")
        /\ (args.country # "" \/ "country" \in DOMAIN old_data) =>
                Payload.country = Overlaid(args.country, old_data, "country")
        /\ Payload.countryCode = Overlaid(args.country_code, old_data, "countryCode")
        /\ Payload.description = Overlaid(args.description, old_data, "description")
        /\ Payload.nameCode = Overlaid(args.name_code, old_data, "nameCode")
        /\ Payload.homepage = Overlaid(args.homepage, old_data, "homepage")
        /\ Payload.providerType = Overlaid(args.provider_type, old_data, "providerType")
        /\ Payload.email = Overlaid(args.email, old_data, "email")

C2_Witness ==
    /\ UpdateDone("update_provider")
    /\ args.name # ""
    /\ args.provider_type = "MUSEUM"
    /\ args.homepage = ""
    /\ args.email = ""
    /\ Payload.name = args.name
    /\ Payload.providerType = "MUSEUM"
    /\ Payload.homepage = old_data.homepage
    /\ Payload.homepage # ""
    /\ Payload.email = old_data.email

\* the keys of the fetched dataSource update_oai_dataset has a parameter for that
\* the caller did not supply
UnsuppliedSourceKeys ==
    {k \in DOMAIN old_data.dataSource :
        \/ k = "exportDir" /\ args.export_dir = ""
        \/ k = "description" /\ args.description = ""
        \/ k = "oaiSourceURL" /\ args.oai_url = ""
        \/ k = "oaiSet" /\ args.set_name = ""
        \/ k = "isSample" /\ args.is_sample = FALSE
        \/ k \in {"metadataFormat", "schema", "namespace"} /\ args.metadata_format = <<>>}

\* the keys of the fetched dataSource update_oai_dataset has no parameter for
ParameterlessSourceKeys == {"id", "dataSetType", "recordIdPolicy"}

\* C3: update_oai_dataset: every key of the fetched dataset whose parameter the
\* caller did not supply is submitted unchanged, dataSource.isSample included when
\* is_sample is not passed, and so is every key the operation has no parameter for
\* (dataSource.id, dataSetType, recordIdPolicy, containerType).
C3_DatasetUnsuppliedKeysUnchanged ==
    UpdateDone("update_oai_dataset") =>
        /\ \A k \in UnsuppliedSourceKeys \cup ParameterlessSourceKeys :
                Payload.dataSource[k] = old_data.dataSource[k]
        /\ Payload.containerType = old_data.containerType
        /\ args.name = "" => Payload.name = old_data.name
        /\ args.name_code = "" => Payload.nameCode = old_data.nameCode

\* the keys update_provider reads from the fetched provider outside a try
RequiredProviderKeys ==
    {"name", "countryCode", "description", "nameCode", "homepage", "providerType", "email"}

\* C4: update_provider called with a non-empty provider_type outside the ten
\* enumerated values submits the providerType the preceding GET returned, never
\* the caller's value, and still issues the PUT.
C4_InvalidProviderTypeFallsBack ==
    (/\ op = "update_provider"
     /\ pc \in {"done", "raised"}
     /\ args.provider_type # ""
     /\ args.provider_type \notin provider_types
     /\ RequiredProviderKeys \subseteq DOMAIN old_data) =>
        /\ pc = "done"
        /\ Len(requests) = 2
        /\ requests[2].method = "PUT"
        /\ Payload.providerType = old_data.providerType
        /\ Payload.providerType # args.provider_type

C4_Witness ==
    /\ UpdateDone("update_provider")
    /\ args.provider_type = "museum"
    /\ requests[2].method = "PUT"
    /\ Payload.providerType = "LIBRARY"

\* the updatable keys of the fetched representation, each with the caller's value
UpdatableFields ==
    IF op = "update_aggregator"
    THEN [name |-> args.aggregator_name, nameCode |-> args.name_code,
          homepage |-> args.homepage]
    ELSE [name |-> args.name, countryCode |-> args.country_code,
          description |-> args.description, nameCode |-> args.name_code,
          homepage |-> args.homepage, providerType |-> args.provider_type,
          email |-> args.email]

\* C13: in update_aggregator and update_provider, if the fetched representation
\* lacks an updatable field the caller did not supply, the merge substitutes an
\* empty value for it and the PUT is still issued.
C13_MissingFieldBecomesEmpty ==
    (/\ op \in {"update_aggregator", "update_provider"}
     /\ pc \in {"done", "raised"}
     /\ "id" \in DOMAIN old_data) =>
        /\ pc = "done"
        /\ requests[Len(requests)].method = "PUT"
        /\ \A k \in DOMAIN UpdatableFields :
                (k \notin DOMAIN old_data /\ UpdatableFields[k] = "") =>
                    Payload[k] = ""

\* C16: in the three update operations, whenever the GET of the current
\* representation returns an error body without the resource's fields, no PUT is
\* issued, whatever override fields the caller supplied.
C16_FailedReadAbortsUpdate ==
    (/\ op \in {"update_aggregator", "update_provider", "update_oai_dataset"}
     /\ pc \in {"fetched", "done", "raised"}
     /\ old_data = error_body) =>
        \A i \in DOMAIN requests : requests[i].method # "PUT"

UpdateOperations == {"update_aggregator", "update_provider", "update_oai_dataset"}

\* the path of the resource the update call is for
TargetPath ==
    IF op = "update_aggregator" THEN <<"aggregators", args.aggregator_id>>
    ELSE IF op = "update_provider" THEN <<"providers", args.provider_id>>
    ELSE <<"datasets", args.dataset_id>>

\* C21: each update operation issues exactly one GET of the target identifier
\* and then, after the response, exactly one PUT to the same identifier; no PUT
\* precedes the GET and no request is issued twice, whatever status the PUT
\* returns.  A call that raises while merging has issued the GET only.
C21_UpdateIssuesGetThenPut ==
    op \in UpdateOperations =>
        /\ pc = "idle" => requests = <<>>
        /\ pc \in {"fetched", "raised"} =>
                /\ Len(requests) = 1
                /\ requests[1].method = "GET"
                /\ requests[1].path = TargetPath
        /\ pc = "done" =>
                /\ Len(requests) = 2
                /\ requests[1].method = "GET"
                /\ requests[1].path = TargetPath
                /\ requests[2].method = "PUT"
                /\ requests[2].path = TargetPath
                /\ result \in UpdateStatus

C21_Witness ==
    /\ UpdateDone("update_oai_dataset")
    /\ result = 400
    /\ Len(requests) = 2
    /\ requests[1].method = "GET"
    /\ requests[2].method = "PUT"
    /\ requests[2].path = <<"datasets", "nr">>

\* the listed format name the caller's metadata_format is, letter case ignored
KnownFormat(metadata_format) ==
    {n \in ListedFormats : lower(n) = lower(metadata_format)}

\* C22: update_oai_dataset with a metadata_format the table lists submits that
\* format's schema and namespace together with the new metadataFormat; with an
\* unknown or no metadata_format it submits the three fetched values.
C22_FormatKeysConsistent ==
    UpdateDone("update_oai_dataset") =>
        LET source == Payload.dataSource
            fetched == old_data.dataSource
        IN  IF args.metadata_format # <<>> /\ KnownFormat(args.metadata_format) # {}
            THEN \A n \in KnownFormat(args.metadata_format) :
                    /\ source.metadataFormat = args.metadata_format
                    /\ source.schema = formats[n].schema
                    /\ source.namespace = formats[n].namespace
            ELSE /\ source.metadataFormat = fetched.metadataFormat
                 /\ source.schema = fetched.schema
                 /\ source.namespace = fetched.namespace

\* C26: no update operation changes the identifier: update_aggregator and
\* update_provider put the identifier argument as id, to the path of that
\* identifier, which is also the path of the GET; update_oai_dataset submits the
\* fetched dataSource.id.
C26_UpdateKeepsIdentifier ==
    (op \in UpdateOperations /\ pc = "done") =>
        /\ requests[1].path = TargetPath
        /\ requests[2].path = TargetPath
        /\ op = "update_aggregator" => Payload.id = args.aggregator_id
        /\ op = "update_provider" => Payload.id = args.provider_id
        /\ op = "update_oai_dataset" =>
                Payload.dataSource.id = old_data.dataSource.id

C26_Witness ==
    /\ UpdateDone("update_oai_dataset")
    /\ args.set_name = "p15769coll18"
    /\ args.name = "nashville_test"
    /\ Payload.name = "nashville_test"
    /\ Payload.dataSource.oaiSet = "p15769coll18"
    /\ Payload.dataSource.id = "nr"

\* C30: every result the lookup returns, for any input string, has both a schema
\* key and a namespace key, also for ISO2709 in any letter case, so
\* update_oai_dataset never fails while reading the lookup result: it raises only
\* for a fetched body without dataSource.
C30_LookupResultHasBothKeys ==
    /\ (op = "metadata_helper" /\ pc # "idle") =>
            /\ pc = "done"
            /\ {"schema", "namespace"} \subseteq DOMAIN result.result
    /\ (op = "update_oai_dataset" /\ pc \in {"done", "raised"}) =>
            /\ args.metadata_format # <<>> =>
                    {"schema", "namespace"} \subseteq DOMAIN format_data(args).result
            /\ pc = "raised" => KeyError(old_data, "dataSource")

C30_Witness ==
    /\ UpdateDone("update_oai_dataset")
    /\ args.metadata_format = S_ISO2709
    /\ DOMAIN format_data(args).result = {"schema", "namespace"}
    /\ Payload.dataSource.metadataFormat = old_data.dataSource.metadataFormat

\* ---------------------------------------------------------------------------
\* Read operations: list_all_aggregators and get_record, called one after the
\* other by one client against remote data that stays the same.
\* ---------------------------------------------------------------------------

\* the number of calls the client makes in one session
MaxCalls == 2

\* requests.get(f"{self.swagger_endpoint}/aggregators", auth=...)
list_request(collection) ==
    [method |-> "GET", url |-> self.swagger_endpoint \o <<collection>>,
     path |-> <<collection>>, auth |-> auth, data |-> None]

\* requests.get(f"{self.swagger_endpoint}/records?recordId={record_id}", auth=...)
record_request(record_id) ==
    [method |-> "GET", url |-> self.swagger_endpoint \o <<"records">>,
     path |-> <<"records">>, query |-> [recordId |-> record_id], auth |-> auth,
     data |-> None]

mutant_list_all_aggregators_reversed(verbose, aggregators_json) ==
    IF verbose
    THEN aggregators_json
    ELSE [i \in DOMAIN aggregators_json |->
            aggregators_json[Len(aggregators_json) + 1 - i].id]

\* the value list_all_aggregators returns for the JSON list the service answered
list_all_aggregators(verbose, aggregators_json) ==
    IF verbose
    THEN aggregators_json
    ELSE [i \in DOMAIN aggregators_json |-> aggregators_json[i].id]

ListAllAggregators ==
    /\ pc = "idle"
    /\ op = "list_all_aggregators"
    /\ requests' = Append(requests, list_request("aggregators"))
    /\ result' = list_all_aggregators(args.verbose, aggregators)
    /\ pc' = "done"
    /\ UNCHANGED <<kept, clock, remote, op, args, old_data, locals>>

\* the fixed string get_record returns from its except clause
REPOX_Error == "REPOX Error: This is a generic error and is thrown when Repox can't find a matching metadata.  This can be caused by an OAI record with the status of deleted."

\* the bodies the service may answer GET /records?recordId= with: a body that is
\* not JSON, and JSON objects with and without the key result
RecordBodies ==
    {[json |-> FALSE, text |-> ""],
     [json |-> TRUE, value |-> [result |-> "<mods/>"]],
     [json |-> TRUE, value |-> error_body],
     [json |-> TRUE, value |-> [status |-> "404"]]}

\* the exceptions the try statement of get_record has an except clause for
get_record_caught == {"JSONDecodeError"}

\* the exception .json()["result"] raises for the body, None when it raises none
get_record_raised(body) ==
    IF ~body.json THEN "JSONDecodeError"
    ELSE IF KeyError(body.value, "result") THEN "KeyError"
    ELSE None

GetRecord ==
    /\ pc = "idle"
    /\ op = "get_record"
    /\ \E body \in RecordBodies :
        /\ locals' = body
        /\ requests' = Append(requests, record_request(args.record_id))
        /\ IF get_record_raised(body) = None
           THEN result' = body.value.result /\ pc' = "done"
           ELSE IF get_record_raised(body) \in get_record_caught
           THEN result' = REPOX_Error /\ pc' = "done"
           ELSE result' = get_record_raised(body) /\ pc' = "raised"
    /\ UNCHANGED <<kept, clock, remote, op, args, old_data>>

\* the calls of the read operations
ReadCalls ==
    [op : {"list_all_aggregators"}, args : [verbose : BOOLEAN]]
        \cup [op : {"get_record"},
              args : [record_id : {"oai:bcpl_123", "oai:p16877coll1/17"}]]

\* the call that ended, as the client keeps it
ended_call == [op |-> op, args |-> args, pc |-> pc, result |-> result]

\* the client goes on to its next call
NextCall ==
    /\ pc \in {"done", "raised"}
    /\ op \in {c.op : c \in ReadCalls}
    /\ Len(returned) + 1 < MaxCalls
    /\ returned' = Append(returned, ended_call)
    /\ \E c \in ReadCalls : op' = c.op /\ args' = c.args
    /\ pc' = "idle"
    /\ result' = None
    /\ locals' = None
    /\ UNCHANGED <<self, clock, remote, old_data, requests>>

\* the records GET /aggregators may list
ListedAggregators ==
    {[id |-> "dltn", name |-> "DLTN Test", nameCode |-> "dltn", homepage |-> h] :
        h \in {"", "http://localhost:8080/repox"}}
        \cup {[id |-> "new_dltn", name |-> "New DLTN", nameCode |-> "new_dltn",
               homepage |-> ""]}

\* the lists GET /aggregators may answer: no id twice, in any order
AggregatorListings ==
    {<<>>} \cup {<<a>> : a \in ListedAggregators}
        \cup {s \in {<<a, b>> : a \in ListedAggregators, b \in ListedAggregators} :
                s[1].id # s[2].id}

InitRead ==
    /\ now_day = 17892
    /\ now_min = 0
    /\ InitCall
    /\ aggregators \in AggregatorListings
    /\ providers = <<>>
    /\ datasets = <<>>
    /\ schedules = <<>>
    /\ \E c \in ReadCalls : op = c.op /\ args = c.args

NextRead ==
    \/ ListAllAggregators
    \/ GetRecord
    \/ NextCall

\* a session of read calls against one remote listing
SpecRead == InitRead /\ [][NextRead]_vars

\* the calls of the session that have ended, in the order they were made
EndedCalls ==
    returned \o (IF pc \in {"done", "raised"} THEN <<ended_call>> ELSE <<>>)

\* C12: get_record returns the fixed 'REPOX Error: ...' string and raises nothing
\* when the response body lacks the result key, whether the body is not JSON or
\* is JSON without the key; when the key is present it returns the key's value.
C12_GetRecordNeverRaises ==
    (op = "get_record" /\ pc \in {"done", "raised"}) =>
        /\ pc = "done"
        /\ IF locals.json /\ "result" \in DOMAIN locals.value
           THEN result = locals.value.result
           ELSE result = REPOX_Error

\* C14: against the same remote data the verbose=False list equals, element by
\* element and in order, the ids of the records of the verbose=True list, and the
\* verbose=True list is the list of records the service answered, unchanged.
C14_ListAllAggregatorsRoundTrip ==
    LET lists == {i \in DOMAIN EndedCalls : EndedCalls[i].op = "list_all_aggregators"}
    IN  /\ \A i \in lists :
            EndedCalls[i].args.verbose => EndedCalls[i].result = aggregators
        /\ \A i, j \in lists :
            (~EndedCalls[i].args.verbose /\ EndedCalls[j].args.verbose) =>
                /\ Len(EndedCalls[i].result) = Len(EndedCalls[j].result)
                /\ \A k \in DOMAIN EndedCalls[i].result :
                        EndedCalls[i].result[k] = EndedCalls[j].result[k].id

C14_Witness ==
    /\ Len(EndedCalls) = 2
    /\ EndedCalls[1].op = "list_all_aggregators" /\ ~EndedCalls[1].args.verbose
    /\ EndedCalls[2].op = "list_all_aggregators" /\ EndedCalls[2].args.verbose
    /\ EndedCalls[1].result = <<"new_dltn", "dltn">>
    /\ Len(EndedCalls[2].result) = 2
    /\ EndedCalls[2].result[2].name = "DLTN Test"

\* ---------------------------------------------------------------------------
\* get_list_of_scheduled_harvests_by_provider: one GET of the provider's
\* datasets, then for each dataset a GET of its schedules for the filter of the
\* comprehension and, if the filter passes, a second GET for the element.  The
\* service's schedules may change between any two of the requests.
\* ---------------------------------------------------------------------------

\* requests.get(f"{self.swagger_endpoint}/datasets?providerId={provider_id}", auth=...)
sets_request(provider_id) ==
    [method |-> "GET", url |-> self.swagger_endpoint \o <<"datasets">>,
     path |-> <<"datasets">>, query |-> [providerId |-> provider_id], auth |-> auth,
     data |-> None]

\* requests.get(f"{self.swagger_endpoint}/datasets/{dataset_id}/harvest/schedules", auth=...)
schedules_request(dataset_id) ==
    [method |-> "GET",
     url |-> self.swagger_endpoint \o <<"datasets", dataset_id, "harvest", "schedules">>,
     path |-> <<"datasets", dataset_id, "harvest", "schedules">>, auth |-> auth,
     data |-> None]

\* the value get_list_of_sets_from_provider returns with verbose=False
get_list_of_sets_from_provider(data_sets) ==
    [i \in DOMAIN data_sets |-> data_sets[i].dataSource.id]

\* the value get_scheduled_harvests returns: the JSON list the service answers
get_scheduled_harvests(dataset_id) == schedules[dataset_id]

\* the position of the comprehension after the dataset at index i
after_dataset(i, acc) ==
    IF i + 1 > Len(locals.sets)
    THEN /\ pc' = "done"
         /\ result' = acc
         /\ locals' = [locals EXCEPT !.acc = acc]
    ELSE /\ pc' = "filter"
         /\ result' = result
         /\ locals' = [locals EXCEPT !.i = i + 1, !.acc = acc]

\* the iterable of the comprehension is evaluated
HarvestsGetSets ==
    /\ pc = "idle"
    /\ op = "get_list_of_scheduled_harvests_by_provider"
    /\ requests' = Append(requests, sets_request(args.provider_id))
    /\ LET sets == get_list_of_sets_from_provider(datasets) IN
        IF sets = <<>>
        THEN /\ pc' = "done"
             /\ result' = <<>>
             /\ locals' = [sets |-> sets, i |-> 1, acc |-> <<>>]
        ELSE /\ pc' = "filter"
             /\ result' = result
             /\ locals' = [sets |-> sets, i |-> 1, acc |-> <<>>]
    /\ UNCHANGED <<kept, clock, remote, op, args, old_data>>

\* the condition of the comprehension: len(self.get_scheduled_harvests(dataset)) is not 0
HarvestsFilter ==
    /\ pc = "filter"
    /\ requests' = Append(requests, schedules_request(locals.sets[locals.i]))
    /\ IF Len(get_scheduled_harvests(locals.sets[locals.i])) # 0
       THEN pc' = "value" /\ UNCHANGED <<result, locals>>
       ELSE after_dataset(locals.i, locals.acc)
    /\ UNCHANGED <<kept, clock, remote, op, args, old_data>>

\* the element of the comprehension: self.get_scheduled_harvests(dataset)
HarvestsValue ==
    /\ pc = "value"
    /\ requests' = Append(requests, schedules_request(locals.sets[locals.i]))
    /\ after_dataset(locals.i,
                     Append(locals.acc, get_scheduled_harvests(locals.sets[locals.i])))
    /\ UNCHANGED <<kept, clock, remote, op, args, old_data>>

\* a scheduled task as get_scheduled_harvests documents it
ScheduledTask ==
    [taskType |-> "SCHEDULED", id |-> "nr_3", frequency |-> "WEEKLY", xmonths |-> 1,
     time |-> "23:45", date |-> "27/12/2018"]

\* the lists the service may answer GET /datasets/<id>/harvest/schedules with
ScheduleLists == {<<>>, <<ScheduledTask>>}

\* another client or the service's scheduler changes a dataset's schedules while
\* the operation is between two of its requests
RemoteSchedulesChange ==
    /\ pc \in {"filter", "value"}
    /\ \E d \in DOMAIN schedules, s \in ScheduleLists :
        /\ s # schedules[d]
        /\ schedules' = [schedules EXCEPT ![d] = s]
    /\ UNCHANGED <<kept, clock, aggregators, providers, datasets, pc, op, args,
                   old_data, requests, result, locals>>

\* the dataset records GET /datasets?providerId= may list
ListedDatasets ==
    {[dataSource |-> [id |-> d], name |-> d, nameCode |-> d] : d \in {"nr", "bcpl"}}

DatasetListings ==
    {<<>>} \cup {<<a>> : a \in ListedDatasets}
        \cup {s \in {<<a, b>> : a \in ListedDatasets, b \in ListedDatasets} :
                s[1] # s[2]}

InitHarvests ==
    /\ now_day = 17892
    /\ now_min = 0
    /\ InitCall
    /\ op = "get_list_of_scheduled_harvests_by_provider"
    /\ args \in [provider_id : {"UTKr0"}]
    /\ aggregators = <<>>
    /\ providers = <<>>
    /\ datasets \in DatasetListings
    /\ schedules \in [{"nr", "bcpl"} -> ScheduleLists]

NextHarvests ==
    \/ HarvestsGetSets
    \/ HarvestsFilter
    \/ HarvestsValue
    \/ RemoteSchedulesChange

\* one call of the operation while the remote schedules may change
SpecHarvests == InitHarvests /\ [][NextHarvests]_vars

\* C20: get_list_of_scheduled_harvests_by_provider returns at most one element
\* per dataset and never an empty list as an element, also when the schedules of
\* a dataset change between the requests the operation issues for it.
C20_NoEmptyElementUnderRemoteChange ==
    (op = "get_list_of_scheduled_harvests_by_provider" /\ pc = "done") =>
        /\ Len(result) <= Len(locals.sets)
        /\ \A i \in DOMAIN result : Len(result[i]) # 0

\* ---------------------------------------------------------------------------
\* Two client instances, each running update_provider once on the same
\* provider.  pc, args, old_data and result are per instance; requests is the
\* sequence of requests in the order the service answers them.
\* ---------------------------------------------------------------------------

Clients == {1, 2}

\* (self.username, self.password) of the instance c
client_auth(c) == <<self[c].username, self[c].password>>

\* the request of instance c for /providers/<id>
client_request(c, method, id, data) ==
    [client |-> c, method |-> method,
     url |-> self[c].swagger_endpoint \o <<"providers", id>>,
     path |-> <<"providers", id>>, auth |-> client_auth(c), data |-> data]

\* old_data = self.get_provider(provider_id), in instance c
ConcurrentProviderGet(c) ==
    /\ pc[c] = "idle"
    /\ old_data' = [old_data EXCEPT ![c] = get_json(providers, args[c].provider_id)]
    /\ requests' = Append(requests, client_request(c, "GET", args[c].provider_id, None))
    /\ pc' = [pc EXCEPT ![c] = "fetched"]
    /\ UNCHANGED <<kept, clock, remote, op, args, result, locals>>

\* the merge and the PUT of metadata, in instance c
ConcurrentProviderPut(c) ==
    /\ pc[c] = "fetched"
    /\ IF update_provider_raises(args[c], old_data[c])
       THEN /\ pc' = [pc EXCEPT ![c] = "raised"]
            /\ result' = [result EXCEPT ![c] = "KeyError"]
            /\ UNCHANGED <<requests, providers>>
       ELSE \E status \in put_status(providers, args[c].provider_id) :
            LET data == update_provider_metadata(args[c], old_data[c]) IN
            /\ requests' = Append(requests,
                                  client_request(c, "PUT", args[c].provider_id, data))
            /\ providers' = put_effect(providers, args[c].provider_id, data, status)
            /\ result' = [result EXCEPT ![c] = status]
            /\ pc' = [pc EXCEPT ![c] = "done"]
    /\ UNCHANGED <<kept, clock, aggregators, datasets, schedules, op, args,
                   old_data, locals>>

\* the parameters the two callers choose among, each with its key in metadata
OverrideKeys ==
    [name |-> "name", description |-> "description",
     provider_type |-> "providerType", email |-> "email"]

\* the parameters the caller supplied
Supplied(a) == {k \in DOMAIN OverrideKeys : a[k] # ""}

\* the calls of one instance: some of the four parameters, with valid values
ConcurrentArgs ==
    {a \in UpdateProviderArgs :
        /\ a.provider_id = "UTKr0"
        /\ a.country = "" /\ a.country_code = "" /\ a.name_code = ""
        /\ a.homepage = ""
        /\ a.provider_type \in {""} \cup provider_types
        /\ Supplied(a) # {}}

InitConcurrent ==
    /\ now_day = 17892
    /\ now_min = 0
    /\ self = [c \in Clients |->
                Repox_init("http://localhost:8080", "username", "password")]
    /\ returned = <<>>
    /\ locals = None
    /\ op = "update_provider"
    /\ pc = [c \in Clients |-> "idle"]
    /\ old_data = [c \in Clients |-> None]
    /\ result = [c \in Clients |-> None]
    /\ requests = <<>>
    /\ args \in {f \in [Clients -> ConcurrentArgs] : Supplied(f[1]) \cap Supplied(f[2]) = {}}
    /\ aggregators = <<>>
    /\ \E p \in StoredProviders : providers = ("UTKr0" :> p)
    /\ datasets = <<>>
    /\ schedules = <<>>

NextConcurrent ==
    \E c \in Clients : ConcurrentProviderGet(c) \/ ConcurrentProviderPut(c)

\* the two calls in every interleaving of their requests
SpecConcurrent == InitConcurrent /\ [][NextConcurrent]_vars

\* both calls have ended and the service stored both PUTs
BothStored == \A c \in Clients : pc[c] = "done" /\ result[c] = 200

\* the stored provider carries each override of instance c
CarriesOverrides(c) ==
    \A k \in Supplied(args[c]) :
        providers[args[c].provider_id][OverrideKeys[k]] = args[c][k]

\* the calls did not overlap: one instance's PUT was answered before the other's GET
NotOverlapped ==
    /\ Len(requests) = 4
    /\ requests[1].client = requests[2].client
    /\ requests[3].client = requests[4].client

\* C17 as stated: when two instances run update_provider on the same provider
\* with disjoint overrides, then under every interleaving of their GETs and PUTs
\* the provider stored after both calls carries both callers' overrides.
C17_BothOverridesUnderEveryInterleaving ==
    BothStored => \A c \in Clients : CarriesOverrides(c)

\* C17 amended: under every interleaving the stored provider carries the
\* overrides of the instance whose PUT was stored last, and it carries both
\* callers' overrides when the two calls did not overlap.
C17_LastWriterWins ==
    BothStored =>
        /\ CarriesOverrides(requests[Len(requests)].client)
        /\ NotOverlapped => \A c \in Clients : CarriesOverrides(c)

C17_Witness ==
    /\ BothStored
    /\ NotOverlapped
    /\ requests[1].client = 2
    /\ Supplied(args[1]) = {"name"}
    /\ Supplied(args[2]) = {"email", "provider_type"}
    /\ providers["UTKr0"].name = "UT Knoxville"
    /\ providers["UTKr0"].email = "mbagget1@utk.edu"
    /\ providers["UTKr0"].providerType = "MUSEUM"

\* ---------------------------------------------------------------------------
\* update_provider called again with the same arguments, by one client, against
\* the provider the service holds after the call before.
\* ---------------------------------------------------------------------------

\* the client makes the same call once more
UpdateProviderAgain ==
    /\ pc \in {"done", "raised"}
    /\ op = "update_provider"
    /\ Len(returned) + 1 < MaxCalls
    /\ returned' = Append(returned, ended_call)
    /\ pc' = "idle"
    /\ old_data' = None
    /\ result' = None
    /\ UNCHANGED <<self, clock, remote, op, args, requests, locals>>

InitRepeated ==
    /\ now_day = 17892
    /\ now_min = 0
    /\ InitCall
    /\ op = "update_provider"
    /\ args \in {a \in UpdateProviderArgs : a.provider_id = "UTKr0"}
    /\ aggregators = <<>>
    /\ \E p \in StoredProviders : providers = ("UTKr0" :> p)
    /\ datasets = <<>>
    /\ schedules = <<>>

NextRepeated ==
    \/ UpdateProviderGet
    \/ UpdateProviderPut
    \/ UpdateProviderAgain

\* the same update_provider call MaxCalls times in sequence
SpecRepeated == InitRepeated /\ [][NextRepeated]_vars

\* the PUT requests of the session, in the order they were issued
Puts == SelectSeq(requests, LAMBDA r : r.method = "PUT")

\* the service stored the PUT of one of the calls that ended
SomePutStored ==
    \E k \in DOMAIN EndedCalls :
        EndedCalls[k].pc = "done" /\ EndedCalls[k].result = 200

\* C29: update_provider is idempotent against a service that stores the PUT
\* payload as the new provider: the payload of a repeated call equals the first
\* call's, and the provider the service holds after the repetition is the one it
\* held after the first stored call.
C29_UpdateProviderIdempotent ==
    op = "update_provider" =>
        /\ \A i \in DOMAIN Puts : Puts[i].data = Puts[1].data
        /\ SomePutStored => providers[args.provider_id] = Puts[1].data

C29_Witness ==
    /\ Len(EndedCalls) = 2
    /\ \A k \in DOMAIN EndedCalls : EndedCalls[k].pc = "done" /\ EndedCalls[k].result = 200
    /\ Len(Puts) = 2
    /\ args.name = "UT Knoxville"
    /\ args.provider_type = "museum"
    /\ args.country = ""
    /\ Puts[1].data.country = ""
    /\ Puts[2].data = Puts[1].data
    /\ providers["UTKr0"] = Puts[2].data
    /\ providers["UTKr0"].providerType = "LIBRARY"

\* ---------------------------------------------------------------------------
\* The operations that issue one request and hand back a part of its response,
\* and assign_provider_to_new_aggregator, which issues a GET and a PUT.
\* ---------------------------------------------------------------------------

mutant_direct_without_auth(method, path, query, headers, data) ==
    [method |-> method, url |-> self.swagger_endpoint \o path, path |-> path,
     query |-> query, auth |-> <<>>, headers |-> headers, data |-> data]

\* requests.<method>(f"{self.swagger_endpoint}/<path>?<query>",
\*                   auth=(self.username, self.password), headers=..., data=...)
direct(method, path, query, headers, data) ==
    [method |-> method, url |-> self.swagger_endpoint \o path, path |-> path,
     query |-> query, auth |-> auth, headers |-> headers, data |-> data]

\* harvest_type of harvest_set
harvest_type(is_sample) == IF is_sample = FALSE THEN "full" ELSE "sample"

\* aggregator_data of create_aggregator
aggregator_data(a) ==
    [id |-> a.aggregator_id, name |-> a.aggregator_name, nameCode |-> a.name_code,
     homepage |-> a.homepage]

\* the request each operation issues for its arguments a
direct_request(o, a) ==
    CASE o = "get_aggregator" ->
        direct("GET", <<"aggregators", a.aggregator_id>>,
               None, None, None)
      [] o = "get_aggregator_options" ->
        direct("GET", <<"aggregators", "options">>,
               None, None, None)
      [] o = "create_aggregator" ->
        direct("POST", <<"aggregators">>,
               None, self.headers, aggregator_data(a))
      [] o = "delete_aggregator" ->
        direct("DELETE", <<"aggregators", a.aggregator_id>>,
               None, None, None)
      [] o = "get_list_of_providers" ->
        direct("GET", <<"providers">>,
               [aggregatorId |-> a.aggregator_id], None, None)
      [] o = "get_provider" ->
        direct("GET", <<"providers", a.provider_id>>,
               None, None, None)
      [] o = "create_provider" ->
        direct("POST", <<"providers">>,
               [aggregatorId |-> a.aggregator_id], self.headers, a.metadata)
      [] o = "delete_provider" ->
        direct("DELETE", <<"providers", a.provider_id>>,
               None, None, None)
      [] o = "get_list_of_sets_from_provider" ->
        direct("GET", <<"datasets">>,
               [providerId |-> a.provider_id], None, None)
      [] o = "get_list_of_sets_from_provider_by_format" ->
        direct("GET", <<"datasets">>,
               [providerId |-> a.provider_id], None, None)
      [] o = "get_dataset_details" ->
        direct("GET", <<"datasets", a.data_set_id>>,
               None, None, None)
      [] o = "get_last_ingest_date_of_set" ->
        direct("GET", <<"datasets", a.data_set_id, "date">>,
               None, None, None)
      [] o = "count_records_in_dataset" ->
        direct("GET", <<"datasets", a.data_set_id, "count">>,
               None, None, None)
      [] o = "create_dataset" ->
        direct("POST", <<"datasets">>,
               [providerId |-> a.provider_id], self.headers, a.metadata)
      [] o = "export_dataset" ->
        direct("POST", <<"datasets", a.dataset_id, "export">>,
               None, self.headers, None)
      [] o = "copy_dataset" ->
        direct("POST", <<"datasets", a.dataset_id>>,
               [newDatasetId |-> a.new_dataset_id], self.headers, None)
      [] o = "delete_dataset" ->
        direct("DELETE", <<"datasets", a.dataset_id>>,
               None, None, None)
      [] o = "get_statistics" ->
        direct("GET", <<"statistics">>,
               None, None, None)
      [] o = "get_scheduled_harvests" ->
        direct("GET", <<"datasets", a.dataset_id, "harvest", "schedules">>,
               None, None, None)
      [] o = "get_status_of_harvest" ->
        direct("GET", <<"datasets", a.dataset_id, "harvest", "status">>,
               None, None, None)
      [] o = "get_log_of_last_harvest" ->
        direct("GET", <<"datasets", a.dataset_id, "harvest", "log">>,
               None, None, None)
      [] o = "get_list_of_running_harvests" ->
        direct("GET", <<"datasets", "harvest">>,
               None, None, None)
      [] o = "harvest_set" ->
        direct("POST", <<"datasets", a.dataset_id, "harvest", "start">>,
               [type |-> harvest_type(a.is_sample)], None, None)
      [] o = "cancel_running_harvest" ->
        direct("DELETE", <<"datasets", a.dataset_id, "harvest", "cancel">>,
               None, None, None)
      [] o = "delete_automatic_harvesting_task" ->
        direct("DELETE", <<"datasets", a.dataset_id, "harvest", "schedules", a.task_id>>,
               None, None, None)
      [] o = "get_options_for_harvests" ->
        direct("GET", <<"datasets", "harvest", "options">>,
               None, None, None)
      [] o = "get_options_for_mappings" ->
        direct("GET", <<"mappings", "options">>,
               None, None, None)
      [] o = "get_options_for_records" ->
        direct("GET", <<"records", "options">>,
               None, None, None)
      [] o = "delete_record" ->
        direct("GET", <<"records">>,
               [recordId |-> a.record_id, type |-> "delete"], None, None)
      [] o = "add_a_record" ->
        direct("POST", <<"records">>,
               [datasetId |-> a.dataset_id, recordId |-> a.record_id],
               "application/xml", a.xml_record)
      [] o = "get_mapping_details" ->
        direct("GET", <<"mappings", a.mapping_id>>,
               None, None, None)
      [] o = "add_mapping" ->
        direct("POST", <<"mappings">>,
               None, "application/xml", a.metadata)

\* the arguments the operations are called with
DirectArgs ==
    [get_aggregator |-> [aggregator_id : {"dltn"}],
     get_aggregator_options |-> {<<>>},
     create_aggregator |-> [aggregator_id : {"dltn"}, aggregator_name : {"DLTN Test"},
                           name_code : {"", "dltn"}, homepage : {""}],
     delete_aggregator |-> [aggregator_id : {"dltn"}],
     get_list_of_providers |-> [aggregator_id : {"dltn"}, verbose : BOOLEAN],
     get_provider |-> [provider_id : {"UTKr0"}],
     create_provider |-> [aggregator_id : {"dltn"}, metadata : {[id |-> "new"]}],
     delete_provider |-> [provider_id : {"UTKr0"}],
     get_list_of_sets_from_provider |-> [provider_id : {"UTKr0"}, verbose : BOOLEAN],
     get_list_of_sets_from_provider_by_format |-> [provider_id : {"UTKr0"}],
     get_dataset_details |-> [data_set_id : {"nr"}],
     get_last_ingest_date_of_set |-> [data_set_id : {"nr"}],
     count_records_in_dataset |-> [data_set_id : {"nr"}],
     create_dataset |-> [provider_id : {"UTKr0"}, metadata : {[id |-> "new"]}],
     export_dataset |-> [dataset_id : {"nr"}],
     copy_dataset |-> [dataset_id : {"nr"}, new_dataset_id : {"nr2"}],
     delete_dataset |-> [dataset_id : {"nr"}],
     get_statistics |-> {<<>>},
     get_scheduled_harvests |-> [dataset_id : {"nr"}],
     get_status_of_harvest |-> [dataset_id : {"nr"}],
     get_log_of_last_harvest |-> [dataset_id : {"nr"}],
     get_list_of_running_harvests |-> {<<>>},
     harvest_set |-> [dataset_id : {"nr"}, is_sample : BOOLEAN],
     cancel_running_harvest |-> [dataset_id : {"nr"}],
     delete_automatic_harvesting_task |-> [dataset_id : {"nr"}, task_id : {"nr_3"}],
     get_options_for_harvests |-> {<<>>},
     get_options_for_mappings |-> {<<>>},
     get_options_for_records |-> {<<>>},
     delete_record |-> [record_id : {"oai:bcpl_123"}],
     add_a_record |-> [dataset_id : {"nr"}, record_id : {"oai:bcpl_123"},
                      xml_record : {"<record/>"}],
     get_mapping_details |-> [mapping_id : {"UTKMODSrepaired"}],
     add_mapping |-> [metadata : {[id |-> "new"]}]]

\* the operations that return the status code of the response
StatusOperations ==
    {"create_aggregator", "delete_aggregator", "create_provider",
     "delete_provider", "create_dataset", "export_dataset",
     "copy_dataset", "delete_dataset", "harvest_set", "cancel_running_harvest", "delete_automatic_harvesting_task",
     "delete_record", "add_a_record", "add_mapping"}

\* the operations that pass headers="application/xml", a string where the HTTP
\* library expects a mapping
StringHeaderOperations == {"add_a_record", "add_mapping"}

\* the responses of the service: a status code and a body
Responses == [status_code : {200, 404}, body : {"body"}]

mutant_self_after_sets_headers(o) ==
    IF o \in StringHeaderOperations
    THEN [self EXCEPT !.headers = [content_type |-> "application/xml"]]
    ELSE self

\* the attributes of the instance after operation o: no method other than
\* __init__ assigns one
self_after(o) == self

\* one call of an operation that issues one request.  For a string passed as
\* headers the HTTP library either raises before it sends anything or sends the
\* request.
DirectCall ==
    /\ pc = "idle"
    /\ op \in DOMAIN DirectArgs
    /\ \/ /\ op \in StringHeaderOperations
          /\ pc' = "raised"
          /\ result' = "AttributeError"
          /\ UNCHANGED requests
       \/ \E response \in Responses :
            /\ requests' = Append(requests, direct_request(op, args))
            /\ result' = IF op \in StatusOperations
                         THEN response.status_code
                         ELSE response.body
            /\ pc' = "done"
    /\ self' = self_after(op)
    /\ UNCHANGED <<returned, clock, remote, op, args, old_data, locals>>

\* metadata = requests.get(.../providers/{provider_id}).json()
AssignProviderGet ==
    /\ pc = "idle"
    /\ op = "assign_provider_to_new_aggregator"
    /\ old_data' = get_json(providers, args.provider_id)
    /\ requests' = Append(requests, get_request("providers", args.provider_id))
    /\ pc' = "fetched"
    /\ UNCHANGED <<kept, clock, remote, op, args, result, locals>>

\* requests.put(.../providers/{provider_id}?newAggregatorId={aggregator_id}, ...)
AssignProviderPut ==
    /\ pc = "fetched"
    /\ op = "assign_provider_to_new_aggregator"
    /\ \E status \in put_status(providers, args.provider_id) :
        /\ requests' = Append(requests,
                direct("PUT", <<"providers", args.provider_id>>,
                       [newAggregatorId |-> args.aggregator_id], self.headers,
                       old_data))
        /\ result' = status
        /\ pc' = "done"
    /\ UNCHANGED <<kept, clock, remote, op, args, old_data, locals>>

\* the calls of this section
DirectCalls ==
    UNION {[op : {o}, args : DirectArgs[o]] : o \in DOMAIN DirectArgs}
        \cup [op : {"assign_provider_to_new_aggregator"},
              args : [provider_id : {"UTKr0", "nope"}, aggregator_id : {"dltn"}]]

\* the client goes on to its next call
DirectNextCall ==
    /\ pc \in {"done", "raised"}
    /\ op \in {c.op : c \in DirectCalls}
    /\ Len(returned) + 1 < MaxCalls
    /\ returned' = Append(returned, ended_call)
    /\ \E c \in DirectCalls : op' = c.op /\ args' = c.args
    /\ pc' = "idle"
    /\ result' = None
    /\ old_data' = None
    /\ UNCHANGED <<self, clock, remote, requests, locals>>

InitDirect ==
    /\ now_day = 17892
    /\ now_min = 0
    /\ InitCall
    /\ aggregators = <<>>
    /\ \E p \in StoredProviders :
        /\ "country" \in DOMAIN p /\ "email" \in DOMAIN p /\ "providerType" \in DOMAIN p
        /\ p.description = ""
        /\ providers = ("UTKr0" :> p)
    /\ datasets = <<>>
    /\ schedules = <<>>
    /\ \E c \in DirectCalls : op = c.op /\ args = c.args

NextDirect ==
    \/ DirectCall
    \/ AssignProviderGet
    \/ AssignProviderPut
    \/ DirectNextCall

\* ---------------------------------------------------------------------------
\* The operations that go through the datasets of a provider and call an
\* accessor for each: count_records_from_provider and the two
\* get_recently_ingested_sets operations.  In these specifications datasets is
\* the sequence of datasets the service holds, each with its provider, its
\* last ingest date and its record count, and providers is the sequence of
\* providers of the aggregator.
\* ---------------------------------------------------------------------------

\* a dataset as the service holds it
DatasetRow(provider_id, dataset_id, date, count) ==
    [provider |-> provider_id, dataSource |-> [id |-> dataset_id],
     lastIngest |-> date, records |-> count]

\* the JSON list the service answers GET /datasets?providerId=<provider_id> with
datasets_json(provider_id) ==
    SelectSeq(datasets, LAMBDA row : row.provider = provider_id)

\* the dataset the service holds under dataset_id
dataset_row(dataset_id) ==
    datasets[CHOOSE i \in DOMAIN datasets : datasets[i].dataSource.id = dataset_id]

\* int() of a string of decimal digits
RECURSIVE int(_)
int(s) ==
    IF s = <<>> THEN 0
    ELSE int(SubSeq(s, 1, Len(s) - 1)) * 10
            + (CHOOSE n \in 0..9 : Digits[n + 1] = s[Len(s)])

\* count_records_in_dataset: int(requests.get(.../count).json()["result"])
count_records_in_dataset(dataset_id) == int(dataset_row(dataset_id).records)

mutant_records_assigned(records, count) == count

\* records += self.count_records_in_dataset(dataset)
records_added(records, count) == records + count

\* records = 0; sets = self.get_list_of_sets_from_provider(provider_id)
CountGetSets ==
    /\ pc = "idle"
    /\ op = "count_records_from_provider"
    /\ requests' = Append(requests, sets_request(args.provider_id))
    /\ LET sets == get_list_of_sets_from_provider(datasets_json(args.provider_id)) IN
        /\ locals' = [sets |-> sets, i |-> 1, records |-> 0]
        /\ IF sets = <<>>
           THEN pc' = "done" /\ result' = 0
           ELSE pc' = "count" /\ result' = result
    /\ UNCHANGED <<kept, clock, remote, op, args, old_data>>

\* one turn of the loop over sets
CountDataset ==
    /\ pc = "count"
    /\ op = "count_records_from_provider"
    /\ LET dataset == locals.sets[locals.i]
           records == records_added(locals.records, count_records_in_dataset(dataset))
       IN  /\ requests' = Append(requests,
                    direct_request("count_records_in_dataset", [data_set_id |-> dataset]))
           /\ locals' = [locals EXCEPT !.i = locals.i + 1, !.records = records]
           /\ IF locals.i + 1 > Len(locals.sets)
              THEN pc' = "done" /\ result' = records
              ELSE pc' = "count" /\ result' = result
    /\ UNCHANGED <<kept, clock, remote, op, args, old_data>>

\* the record counts the service answers with
RecordCounts == {<<"0">>, <<"7">>, <<"1", "2">>}

\* the ids of the datasets the service holds, in the order it lists them
DatasetIds == <<"bcpl", "nr", "cmhf", "p16877coll9">>

\* the providers the datasets belong to
ProviderIds == {"utc", "utk"}

MaxDatasets == 3

\* the date of the docstring of get_last_ingest_date_of_set
T_12142018 ==
    <<"1", "2", "/", "1", "4", "/", "2", "0", "1", "8", " ",
      "0", "8", ":", "5", "6", ":", "3", "2">>

InitCount ==
    /\ now_day = 17892
    /\ now_min = 0
    /\ InitCall
    /\ op = "count_records_from_provider"
    /\ args \in [provider_id : {"utc"}]
    /\ aggregators = <<>>
    /\ providers = <<>>
    /\ schedules = <<>>
    /\ \E n \in 0..MaxDatasets :
        \E p \in [1..n -> ProviderIds], c \in [1..n -> RecordCounts] :
            datasets = [i \in 1..n |-> DatasetRow(p[i], DatasetIds[i], T_12142018, c[i])]

NextCount ==
    \/ CountGetSets
    \/ CountDataset

\* one call of count_records_from_provider
SpecCount == InitCount /\ [][NextCount]_vars

\* the sum of the record counts of the datasets in rows
RECURSIVE SumOfRecords(_)
SumOfRecords(rows) ==
    IF rows = <<>> THEN 0
    ELSE DigitsValue(rows[1].records) + SumOfRecords(Tail(rows))

\* C25: count_records_from_provider returns the sum of the record counts of
\* exactly the datasets listed for the provider, each counted once, and 0 for a
\* provider without datasets; it issues the list request and then one count
\* request per dataset, in list order.
C25_CountIsSumOverListedDatasets ==
    (op = "count_records_from_provider" /\ pc = "done") =>
        LET rows == datasets_json(args.provider_id) IN
        /\ result = SumOfRecords(rows)
        /\ rows = <<>> => result = 0
        /\ Len(requests) = Len(rows) + 1
        /\ requests[1].method = "GET"
        /\ requests[1].path = <<"datasets">>
        /\ requests[1].query = [providerId |-> args.provider_id]
        /\ \A i \in DOMAIN rows :
            /\ requests[i + 1].method = "GET"
            /\ requests[i + 1].path = <<"datasets", rows[i].dataSource.id, "count">>

C25_Witness ==
    /\ op = "count_records_from_provider"
    /\ pc = "done"
    /\ Len(datasets) = 3
    /\ datasets[2].provider = "utk"
    /\ datasets[1].records = <<"7">>
    /\ datasets[3].records = <<"1", "2">>
    /\ result = 19
    /\ Len(requests) = 3

(***************************************************************************)
(* get_recently_ingested_sets_by_provider and _by_aggregator               *)
(***************************************************************************)
\* the characters of dates, in the order of their code points
OrdChars ==
    <<" ", "-", "/", "0", "1", "2", "3", "4", "5", "6", "7", "8", "9", ":">>

\* the rank of the code point of c among OrdChars
ord(c) == CHOOSE i \in DOMAIN OrdChars : OrdChars[i] = c

\* a > b for two str: the comparison of Python, code point by code point
str_gt(a, b) ==
    \E i \in DOMAIN a :
        /\ \A j \in 1..(i - 1) : j <= Len(b) /\ a[j] = b[j]
        /\ \/ i = Len(b) + 1
           \/ i <= Len(b) /\ ord(a[i]) > ord(b[i])

\* x is a string of n decimal digits
is_digits(x, n) == Len(x) = n /\ \A i \in DOMAIN x : x[i] \in Range(Digits)

\* arrow.get(s, "MM/DD/YYYY") finds a date at the start of s, as in the example
\* of the docstring, where the service's dates carry a time of day
parses_MMDDYYYY(s) ==
    /\ Len(s) >= 10
    /\ is_digits(SubSeq(s, 1, 2), 2) /\ s[3] = "/"
    /\ is_digits(SubSeq(s, 4, 5), 2) /\ s[6] = "/"
    /\ is_digits(SubSeq(s, 7, 10), 4)

\* arrow.get(s, "MM/DD/YYYY") as [y, m, d]
arrow_get_MMDDYYYY(s) ==
    [y |-> int(SubSeq(s, 7, 10)), m |-> int(SubSeq(s, 1, 2)), d |-> int(SubSeq(s, 4, 5))]

\* arrow.get(s, "YYYY-MM-DD") as [y, m, d]
arrow_get_YYYYMMDD(s) ==
    [y |-> int(SubSeq(s, 1, 4)), m |-> int(SubSeq(s, 6, 7)), d |-> int(SubSeq(s, 9, 10))]

\* Arrow.format("YYYY-MM-DD")
format_YYYYMMDD(date) ==
    four_digits(date.y) \o <<"-">> \o two_digits(date.m) \o <<"-">> \o two_digits(date.d)

\* the default of the parameter since
T_YYYY_MM_DD == <<"Y", "Y", "Y", "Y", "-", "M", "M", "-", "D", "D">>

mutant_is_after_or_on(date, since) ==
    /\ parses_MMDDYYYY(date)
    /\ \/ str_gt(format_YYYYMMDD(arrow_get_MMDDYYYY(date)), since)
       \/ format_YYYYMMDD(arrow_get_MMDDYYYY(date)) = since

\* arrow.get(date, "MM/DD/YYYY").format("YYYY-MM-DD") > since, false when the
\* parse raises ParserError, which the loop passes over
is_after(date, since) ==
    /\ parses_MMDDYYYY(date)
    /\ str_gt(format_YYYYMMDD(arrow_get_MMDDYYYY(date)), since)

\* get_last_ingest_date_of_set: requests.get(.../date).json()["result"]
get_last_ingest_date_of_set(dataset_id) == dataset_row(dataset_id).lastIngest

\* pair put into a list sorted downwards by itemgetter(1), behind the elements
\* that are not smaller: the place a stable sort with reverse=True gives it
inserted(sorted, pair) ==
    LET k == Cardinality({i \in DOMAIN sorted : ~str_gt(pair[2], sorted[i][2])})
    IN  SubSeq(sorted, 1, k) \o <<pair>> \o SubSeq(sorted, k + 1, Len(sorted))

\* list.sort(key=operator.itemgetter(1), reverse=True)
RECURSIVE sort_by_date(_)
sort_by_date(pairs) ==
    IF pairs = <<>> THEN <<>>
    ELSE inserted(sort_by_date(SubSeq(pairs, 1, Len(pairs) - 1)), pairs[Len(pairs)])

by_provider == "get_recently_ingested_sets_by_provider"

by_aggregator == "get_recently_ingested_sets_by_aggregator"

\* the position after the loop over the datasets of one provider, l being the
\* local variables: by_provider sorts and returns, by_aggregator appends the
\* sorted pairs to all_sets and goes on, and sorts all_sets after the last provider
recent_after_provider(l) ==
    LET provider_sets == sort_by_date(l.acc)
        all_sets == l.all \o provider_sets
    IN  IF op = by_provider
        THEN pc' = "done" /\ result' = provider_sets /\ locals' = l
        ELSE IF l.p + 1 > Len(l.providers)
        THEN /\ pc' = "done"
             /\ result' = sort_by_date(all_sets)
             /\ locals' = [l EXCEPT !.all = all_sets]
        ELSE /\ pc' = "provider"
             /\ result' = result
             /\ locals' = [l EXCEPT !.all = all_sets, !.p = l.p + 1]

\* the position after one turn of the loop over datasets
recent_after_dataset(l) ==
    IF l.i > Len(l.sets)
    THEN recent_after_provider(l)
    ELSE pc' = "dataset" /\ result' = result /\ locals' = l

\* providers = self.get_list_of_providers(aggregator_id); all_sets = []
RecentGetProviders ==
    /\ pc = "idle"
    /\ op = by_aggregator
    /\ requests' = Append(requests,
            direct_request("get_list_of_providers",
                           [aggregator_id |-> args.aggregator_id, verbose |-> FALSE]))
    /\ LET ids == [i \in DOMAIN providers |-> providers[i].id] IN
        /\ locals' = [providers |-> ids, p |-> 1, sets |-> <<>>, i |-> 1,
                      acc |-> <<>>, all |-> <<>>, since |-> args.since]
        /\ IF ids = <<>>
           THEN pc' = "done" /\ result' = <<>>
           ELSE pc' = "provider" /\ result' = result
    /\ UNCHANGED <<kept, clock, remote, op, args, old_data>>

\* datasets = self.get_list_of_sets_from_provider(provider_id); datasets_by_date = []
RecentGetSets ==
    /\ \/ pc = "idle" /\ op = by_provider
       \/ pc = "provider" /\ op = by_aggregator
    /\ LET l == IF op = by_provider
                THEN [providers |-> <<args.provider_id>>, p |-> 1, all |-> <<>>]
                ELSE [providers |-> locals.providers, p |-> locals.p, all |-> locals.all]
           provider_id == l.providers[l.p]
       IN  /\ requests' = Append(requests, sets_request(provider_id))
           /\ recent_after_dataset(
                [providers |-> l.providers, p |-> l.p, all |-> l.all,
                 sets |-> get_list_of_sets_from_provider(datasets_json(provider_id)),
                 i |-> 1, acc |-> <<>>, since |-> args.since])
    /\ UNCHANGED <<kept, clock, remote, op, args, old_data>>

\* since is set: it is normalised, and the date of the dataset is fetched and
\* tested against it
RecentTest ==
    /\ pc = "dataset"
    /\ op \in {by_provider, by_aggregator}
    /\ locals.since # T_YYYY_MM_DD
    /\ LET dataset == locals.sets[locals.i]
           since == format_YYYYMMDD(arrow_get_YYYYMMDD(locals.since))
       IN  /\ requests' = Append(requests,
                    direct_request("get_last_ingest_date_of_set", [data_set_id |-> dataset]))
           /\ IF is_after(get_last_ingest_date_of_set(dataset), since)
              THEN /\ pc' = "append"
                   /\ result' = result
                   /\ locals' = [locals EXCEPT !.since = since]
              ELSE recent_after_dataset(
                     [locals EXCEPT !.since = since, !.i = locals.i + 1])
    /\ UNCHANGED <<kept, clock, remote, op, args, old_data>>

\* datasets_by_date.append((dataset, self.get_last_ingest_date_of_set(dataset)))
RecentAppend ==
    /\ op \in {by_provider, by_aggregator}
    /\ \/ pc = "append"
       \/ pc = "dataset" /\ locals.since = T_YYYY_MM_DD
    /\ LET dataset == locals.sets[locals.i] IN
        /\ requests' = Append(requests,
                direct_request("get_last_ingest_date_of_set", [data_set_id |-> dataset]))
        /\ recent_after_dataset(
                [locals EXCEPT
                    !.acc = Append(locals.acc,
                                   <<dataset, get_last_ingest_date_of_set(dataset)>>),
                    !.i = locals.i + 1])
    /\ UNCHANGED <<kept, clock, remote, op, args, old_data>>

\* the service's date of a last ingest: MM/DD/YYYY HH:00:00
ingest_date(m, d, y, h) ==
    two_digits(m) \o <<"/">> \o two_digits(d) \o <<"/">> \o four_digits(y)
        \o <<" ">> \o two_digits(h) \o <<":", "0", "0", ":", "0", "0">>

\* the dates the service may answer with: of two years, of a day and the day
\* after it, and the empty string
IngestDates ==
    {ingest_date(12, 30, 2018, 8), ingest_date(3, 13, 2019, 10),
     ingest_date(3, 14, 2019, 10), <<>>}

\* the values of since: the default and a day
Sinces == {T_YYYY_MM_DD, <<"2", "0", "1", "9", "-", "0", "3", "-", "1", "3">>}

\* the dataset the loop is at is ingested again, or reset, between the request
\* that tested its date and the request that fetches the date for the result
RemoteIngest ==
    /\ pc = "append"
    /\ op \in {by_provider, by_aggregator}
    /\ \E k \in DOMAIN datasets, date \in IngestDates :
        /\ datasets[k].dataSource.id = locals.sets[locals.i]
        /\ date # datasets[k].lastIngest
        /\ datasets' = [datasets EXCEPT ![k].lastIngest = date]
    /\ UNCHANGED <<kept, clock, aggregators, providers, schedules, pc, op, args,
                   old_data, requests, result, locals>>

\* the providers GET /providers?aggregatorId= may list
ProviderListings ==
    {<<>>, <<[id |-> "utc"]>>, <<[id |-> "utc"], [id |-> "utk"]>>,
     <<[id |-> "utk"], [id |-> "utc"]>>}

MaxIngested == 3

InitRecent ==
    /\ now_day = 17892
    /\ now_min = 0
    /\ InitCall
    /\ aggregators = <<>>
    /\ schedules = <<>>
    /\ \E n \in 0..MaxIngested :
        \E p \in [1..n -> ProviderIds], d \in [1..n -> IngestDates] :
            datasets = [i \in 1..n |-> DatasetRow(p[i], DatasetIds[i], d[i], <<"0">>)]
    /\ \/ /\ op = by_provider
          /\ args \in [provider_id : {"utc"}, since : Sinces]
          /\ providers = <<>>
       \/ /\ op = by_aggregator
          /\ args \in [aggregator_id : {"dltn"}, since : Sinces]
          /\ providers \in ProviderListings

NextRecentStable ==
    \/ RecentGetProviders
    \/ RecentGetSets
    \/ RecentTest
    \/ RecentAppend

\* one call against dates that stay as they are
SpecRecentStable == InitRecent /\ [][NextRecentStable]_vars

NextRecent ==
    \/ NextRecentStable
    \/ RemoteIngest

\* one call while the service goes on ingesting
SpecRecent == InitRecent /\ [][NextRecent]_vars

\* the call of get_recently_ingested_sets_by_provider has returned
RecentByProviderDone == op = by_provider /\ pc = "done"

\* the rows of the service that belong to the provider asked about
RowsOfProvider ==
    SelectSeq(datasets, LAMBDA row : row.provider = args.provider_id)

\* the calendar day of a date of the service, as a number growing with time
DayNumber(date) ==
    (DigitsValue(SubSeq(date, 7, 10)) * 12 + DigitsValue(SubSeq(date, 1, 2))) * 31
        + DigitsValue(SubSeq(date, 4, 5))

\* the calendar day of a cutoff YYYY-MM-DD, on the same scale
CutoffDayNumber(since) ==
    (DigitsValue(SubSeq(since, 1, 4)) * 12 + DigitsValue(SubSeq(since, 6, 7))) * 31
        + DigitsValue(SubSeq(since, 9, 10))

\* the second of the day of a date of the service
SecondOfDay(date) ==
    DigitsValue(SubSeq(date, 12, 13)) * 3600
        + DigitsValue(SubSeq(date, 15, 16)) * 60 + DigitsValue(SubSeq(date, 18, 19))

\* the instant of date a is not before the instant of date b
NotOlder(a, b) ==
    \/ DayNumber(a) > DayNumber(b)
    \/ DayNumber(a) = DayNumber(b) /\ SecondOfDay(a) >= SecondOfDay(b)

\* the identifiers of the datasets in the pairs returned
ResultIds == {result[i][1] : i \in DOMAIN result}

\* C23: the pairs returned by get_recently_ingested_sets_by_provider and by
\* get_recently_ingested_sets_by_aggregator are in descending chronological
\* order of their last-ingest dates, also when the dates lie in different
\* months or years, and two pairs with equal dates keep the order in which
\* they were fetched
C23_PairsNewestFirst ==
    (pc = "done" /\ op \in {by_provider, by_aggregator}) =>
        \A i, j \in DOMAIN result :
            (i < j /\ Len(result[i][2]) = 19 /\ Len(result[j][2]) = 19) =>
                /\ NotOlder(result[i][2], result[j][2])
                /\ (result[i][2] = result[j][2] /\ op = by_provider) =>
                      \E k, l \in DOMAIN locals.sets :
                          /\ k < l
                          /\ locals.sets[k] = result[i][1]
                          /\ locals.sets[l] = result[j][1]

\* C24: with a cutoff, get_recently_ingested_sets_by_provider returns exactly
\* the datasets of the provider whose last-ingest calendar day is strictly
\* after the cutoff day, so that a dataset ingested on the cutoff day is left
\* out; without a cutoff it returns exactly one pair for every dataset of the
\* provider
C24_ExactlyTheDatasetsAfterCutoff ==
    RecentByProviderDone =>
        /\ \A i, j \in DOMAIN result : result[i][1] = result[j][1] => i = j
        /\ \A i \in DOMAIN result :
              \E k \in DOMAIN datasets :
                  /\ datasets[k].dataSource.id = result[i][1]
                  /\ datasets[k].lastIngest = result[i][2]
        /\ IF args.since = T_YYYY_MM_DD
           THEN ResultIds = {RowsOfProvider[k].dataSource.id : k \in DOMAIN RowsOfProvider}
           ELSE ResultIds =
                  {RowsOfProvider[k].dataSource.id :
                      k \in {n \in DOMAIN RowsOfProvider :
                                /\ Len(RowsOfProvider[n].lastIngest) = 19
                                /\ DayNumber(RowsOfProvider[n].lastIngest)
                                      > CutoffDayNumber(args.since)}}

\* a call with a cutoff has returned one dataset and left out both a dataset
\* ingested on the cutoff day and one ingested before it
C24_Witness ==
    /\ RecentByProviderDone
    /\ args.since # T_YYYY_MM_DD
    /\ Len(result) = 1
    /\ \E k \in DOMAIN RowsOfProvider :
          /\ Len(RowsOfProvider[k].lastIngest) = 19
          /\ DayNumber(RowsOfProvider[k].lastIngest) = CutoffDayNumber(args.since)
    /\ \E k \in DOMAIN RowsOfProvider :
          /\ Len(RowsOfProvider[k].lastIngest) = 19
          /\ DayNumber(RowsOfProvider[k].lastIngest) < CutoffDayNumber(args.since)

\* C28: with a cutoff, the date get_recently_ingested_sets_by_provider returns
\* with a dataset is the date that was tested against the cutoff, so every
\* date returned is strictly after the cutoff day, also when the service's
\* last-ingest date of the dataset changes between the requests of the call
C28_ReturnedDateIsTheTestedDate ==
    (RecentByProviderDone /\ args.since # T_YYYY_MM_DD) =>
        \A i \in DOMAIN result :
            /\ Len(result[i][2]) = 19
            /\ DayNumber(result[i][2]) > CutoffDayNumber(args.since)

\* ---------------------------------------------------------------------------
\* The client: a call, or a session of calls, of any of its operations.
\* ---------------------------------------------------------------------------

InitClient ==
    \/ InitUpdate
    \/ InitSchedule
    \/ InitLookup
    \/ InitRead
    \/ InitHarvests
    \/ InitDirect
    \/ InitRepeated
    \/ InitCount
    \/ InitRecent

NextClient ==
    \/ NextUpdate
    \/ NextSchedule
    \/ NextLookup
    \/ NextRead
    \/ NextHarvests
    \/ NextDirect
    \/ UpdateProviderAgain
    \/ NextCount
    \/ NextRecent

SpecClient == InitClient /\ [][NextClient]_vars

\* C18: every HTTP request any operation issues carries the basic-auth
\* credentials (username, password) given at construction.
C18_EveryRequestCarriesCredentials ==
    \A i \in DOMAIN requests : requests[i].auth = <<"username", "password">>

C18_Witness ==
    /\ Len(requests) = 2
    /\ requests[1].method = "DELETE"
    /\ requests[2].method = "POST"
    /\ requests[2].path = <<"records">>
    /\ \A i \in DOMAIN requests : requests[i].auth = <<"username", "password">>

\* C19: after any sequence of calls, successful or failed, swagger_endpoint,
\* username, password and headers equal their values at construction.
C19_ConnectionConfigUnchanged ==
    /\ self.swagger_endpoint = <<"http://localhost:8080", "repox", "rest">>
    /\ self.username = "username"
    /\ self.password = "password"
    /\ self.headers = [content_type |-> "application/json"]

C19_Witness ==
    /\ Len(EndedCalls) = 2
    /\ EndedCalls[1].op = "add_mapping" /\ EndedCalls[1].pc = "raised"
    /\ EndedCalls[2].op = "create_aggregator" /\ EndedCalls[2].result = 200
    /\ self = Repox_init("http://localhost:8080", "username", "password")

====
